---- MODULE Spec2Model ----
(***************************************************************************)
(* A model of the execution-fairness simulator: the price-time priority    *)
(* order book (internal/orderbook), the discrete-event loop                *)
(* (internal/engine), the latency model, the trader agents and the runner  *)
(* that wires them together (internal/sim).                                *)
(*                                                                         *)
(* Order objects are shared by pointer in the Go code (price levels, the   *)
(* order index, the agents' ActiveOrders and the events all hold the same  *)
(* *domain.Order).  The model keeps every Order object in a memory         *)
(* `ord` (id -> object) and lets levels, index and agents hold ids, so a   *)
(* write through one pointer is seen through all of them.                  *)
(***************************************************************************)
EXTENDS Integers, Sequences, FiniteSets, TLC

VARIABLES
    book,       \* book harness: orderbook.Book plus the Order objects it points to
    nextID,     \* book harness: the next unused order id
    last,       \* book harness: the last ProcessOrder call and its result
    pc,         \* where Runner.Run is: "new", "running", "closed"
    cfg,        \* scenario.Config of the run
    gen,        \* the scenario generator's random stream (the seed's draws)
    loop,       \* engine.EventLoop: queue, seqNo, EventsProcessed, CurrentTime
    runner,     \* sim.Runner: book, log, agents, currentBBO, trades
    hist        \* history of the run: dispatch order, pending sets, order origins

bookVars == <<book, nextID, last>>
simVars == <<pc, cfg, gen, loop, runner, hist>>
vars == <<book, nextID, last, pc, cfg, gen, loop, runner, hist>>

-----------------------------------------------------------------------------
(* domain: enums and records *)

Buy == 1
Sell == -1
LimitOrder == 0
MarketOrder == 1
CancelOrder == 2

\* EventType, by its String() name
EventOrderAccepted == "ORDER_ACCEPTED"
EventOrderCanceled == "ORDER_CANCELED"
EventTradeExecuted == "TRADE_EXECUTED"
EventBBOUpdate == "BBO_UPDATE"
EventSignal == "SIGNAL"
EventReQuote == "REQUOTE"
EventSimStart == "SIM_START"
EventSimEnd == "SIM_END"

\* a nil pointer (an absent payload)
Nil == [nil |-> TRUE]

\* domain.Event as a composite literal.  Order is the id of the Order object
\* the event points to (0: nil); Signal, Trade and BBO are the payload values.
Event(timestamp, type, trader, order, signal) ==
    [SeqNo |-> 0, Timestamp |-> timestamp, Type |-> type, TraderID |-> trader,
     Order |-> order, Signal |-> signal, Trade |-> Nil, BBO |-> Nil]

\* domain.Order as a composite literal: unset fields take Go's zero value.
Order(id, trader, side, type, price, qty, cancelID, decisionTime) ==
    [ID |-> id, TraderID |-> trader, Side |-> side, Type |-> type,
     Price |-> price, Qty |-> qty, RemainingQty |-> 0,
     DecisionTime |-> decisionTime, ArrivalTime |-> 0, SeqNo |-> 0,
     CancelID |-> cancelID, QueuePos |-> 0]

-----------------------------------------------------------------------------
(* bounds of the book harness *)

MaxOps == 3      \* ProcessOrder calls per behaviour
MaxPrice == 3    \* limit prices are 1..MaxPrice
MaxQty == 2      \* order quantities are 1..MaxQty

\* two traders take turns, so fills between orders of one trader and between
\* orders of different traders both occur
BookTrader(id) == IF id % 2 = 1 THEN "a" ELSE "b"

-----------------------------------------------------------------------------
(* orderbook.Book *)

\* a faulty min64: the first argument, whichever is smaller
min64First(a, b) == a

min64(a, b) == IF a < b THEN a ELSE b

\* a faulty removal: the sequence is left as it is
RemoveNone(s, i) == s

RemoveAt(s, i) == SubSeq(s, 1, i - 1) \o SubSeq(s, i + 1, Len(s))
InsertAt(s, i, x) == SubSeq(s, 1, i - 1) \o <<x>> \o SubSeq(s, i, Len(s))

RECURSIVE SumRemaining(_, _)
SumRemaining(ord, ids) ==
    IF ids = <<>> THEN 0
    ELSE ord[Head(ids)].RemainingQty + SumRemaining(ord, Tail(ids))

\* a faulty TotalQty: the remaining quantity of the first order only
TotalQtyHead(ord, level) == ord[level.Orders[1]].RemainingQty

\* PriceLevel.TotalQty
TotalQty(ord, level) == SumRemaining(ord, level.Orders)

\* orderbook.New
New == [Bids |-> <<>>, Asks |-> <<>>, orderIndex |-> {}, nextTradeID |-> 0,
        ord |-> <<>>]

\* the domain.BBO literal of Book.BBO
makeBBO(bidPrice, bidQty, askPrice, askQty) ==
    [BidPrice |-> bidPrice, BidQty |-> bidQty,
     AskPrice |-> askPrice, AskQty |-> askQty,
     MidPrice |-> IF bidPrice > 0 /\ askPrice > 0
                  THEN (bidPrice + askPrice) \div 2 ELSE 0]

\* Book.BBO
BBO(b) ==
    makeBBO(IF Len(b.Bids) > 0 THEN b.Bids[1].Price ELSE 0,
            IF Len(b.Bids) > 0 THEN TotalQty(b.ord, b.Bids[1]) ELSE 0,
            IF Len(b.Asks) > 0 THEN b.Asks[1].Price ELSE 0,
            IF Len(b.Asks) > 0 THEN TotalQty(b.ord, b.Asks[1]) ELSE 0)

\* match: the side the incoming order trades against
oppositeSide(b, side) == IF side = Buy THEN b.Asks ELSE b.Bids

setOppositeSide(b, side, levels) ==
    IF side = Buy THEN [b EXCEPT !.Asks = levels] ELSE [b EXCEPT !.Bids = levels]

\* a faulty trade literal: the 0-based loop index as the queue position
makeTradeZeroBased(id, incoming, resting, fillQty, timestamp, i) ==
    [ID |-> id, Price |-> resting.Price, Qty |-> fillQty, Timestamp |-> timestamp,
     PassiveOrderID |-> resting.ID, AggressorOrderID |-> incoming.ID,
     RestingQueuePos |-> i - 1,
     BuyOrderID |-> IF incoming.Side = Buy THEN incoming.ID ELSE resting.ID,
     SellOrderID |-> IF incoming.Side = Buy THEN resting.ID ELSE incoming.ID,
     BuyTrader |-> IF incoming.Side = Buy THEN incoming.TraderID
                   ELSE resting.TraderID,
     SellTrader |-> IF incoming.Side = Buy THEN resting.TraderID
                    ELSE incoming.TraderID]

\* match: the domain.Trade literal of one fill
makeTrade(id, incoming, resting, fillQty, timestamp, i) ==
    [ID |-> id, Price |-> resting.Price, Qty |-> fillQty, Timestamp |-> timestamp,
     PassiveOrderID |-> resting.ID, AggressorOrderID |-> incoming.ID,
     RestingQueuePos |-> i,
     BuyOrderID |-> IF incoming.Side = Buy THEN incoming.ID ELSE resting.ID,
     SellOrderID |-> IF incoming.Side = Buy THEN resting.ID ELSE incoming.ID,
     BuyTrader |-> IF incoming.Side = Buy THEN incoming.TraderID
                   ELSE resting.TraderID,
     SellTrader |-> IF incoming.Side = Buy THEN resting.TraderID
                    ELSE incoming.TraderID]

\* a faulty removal of a filled order: its id is left in the order index
removeFilledKeepIndex(b, side, i, restingID) ==
    setOppositeSide(b, side,
        [oppositeSide(b, side) EXCEPT ![1].Orders = RemoveAt(@, i)])

\* match: `level.Orders = append(level.Orders[:i], level.Orders[i+1:]...)` and
\* `delete(b.orderIndex, resting.ID)` for a resting order that is filled
removeFilled(b, side, i, restingID) ==
    [setOppositeSide(b, side,
         [oppositeSide(b, side) EXCEPT ![1].Orders = RemoveAt(@, i)])
       EXCEPT !.orderIndex = @ \ {restingID}]

\* a faulty fill: the resting order is taken off the book after any fill
fillAndRemove(b, inc, rid, fillQty, timestamp, i) ==
    [b |-> removeFilled([b EXCEPT !.ord[inc].RemainingQty = @ - fillQty,
                                  !.ord[rid].RemainingQty = @ - fillQty,
                                  !.nextTradeID = @ + 1],
                        b.ord[inc].Side, i, b.ord[rid].ID),
     i |-> i,
     trade |-> makeTrade(b.nextTradeID + 1, b.ord[inc], b.ord[rid], fillQty,
                         timestamp, i)]

\* a faulty fill: the quantity is taken off the resting order only
fillPassiveOnly(b, inc, rid, fillQty, timestamp, i) ==
    LET b1 == [b EXCEPT !.ord[rid].RemainingQty = @ - fillQty,
                        !.nextTradeID = @ + 1]
    IN  [b |-> IF b1.ord[rid].RemainingQty <= 0
               THEN removeFilled(b1, b.ord[inc].Side, i, b.ord[rid].ID)
               ELSE b1,
         i |-> IF b1.ord[rid].RemainingQty <= 0 THEN i ELSE i + 1,
         trade |-> makeTrade(b.nextTradeID + 1, b.ord[inc], b.ord[rid], fillQty,
                             timestamp, i)]

\* match, the body of the inner loop: the fill of the resting order rid, at
\* (1-based) index i of the best opposite level, by the incoming order inc
fill(b, inc, rid, fillQty, timestamp, i) ==
    LET b1 == [b EXCEPT !.ord[inc].RemainingQty = @ - fillQty,
                        !.ord[rid].RemainingQty = @ - fillQty,
                        !.nextTradeID = @ + 1]
    IN  [b |-> IF b1.ord[rid].RemainingQty <= 0
               THEN removeFilled(b1, b.ord[inc].Side, i, b.ord[rid].ID)
               ELSE b1,
         i |-> IF b1.ord[rid].RemainingQty <= 0 THEN i ELSE i + 1,
         trade |-> makeTrade(b.nextTradeID + 1, b.ord[inc], b.ord[rid], fillQty,
                             timestamp, i)]

\* match, inner loop: walk the orders of the best opposite level in FIFO
\* order from (1-based) index i while the incoming order has quantity left
RECURSIVE walkLevel(_, _, _, _, _)
walkLevel(b, inc, timestamp, i, trades) ==
    LET orders == oppositeSide(b, b.ord[inc].Side)[1].Orders
        step(f) == walkLevel(f.b, inc, timestamp, f.i, Append(trades, f.trade))
    IN  IF ~(i <= Len(orders) /\ b.ord[inc].RemainingQty > 0)
        THEN [b |-> b, trades |-> trades]
        ELSE step(fill(b, inc, orders[i],
                       min64(b.ord[inc].RemainingQty,
                             b.ord[orders[i]].RemainingQty),
                       timestamp, i))

\* match: `if len(level.Orders) == 0` the best opposite level is removed
dropEmptyLevel(b, side) ==
    IF Len(oppositeSide(b, side)[1].Orders) = 0
    THEN setOppositeSide(b, side, Tail(oppositeSide(b, side)))
    ELSE b

\* a faulty price check: every incoming order is let through
crossesAlways(incoming, level) == TRUE

\* match, the price check of a limit order against the best opposite level
crosses(incoming, level) ==
    ~ /\ incoming.Type = LimitOrder
      /\ \/ incoming.Side = Buy /\ incoming.Price < level.Price
         \/ incoming.Side = Sell /\ incoming.Price > level.Price

\* match, outer loop: best level first, until the incoming order is filled,
\* the opposite side is empty or, for a limit order, the price check fails
RECURSIVE matchLoop(_, _, _, _)
matchLoop(b, inc, timestamp, trades) ==
    LET opp     == oppositeSide(b, b.ord[inc].Side)
        next(r) == matchLoop(dropEmptyLevel(r.b, b.ord[inc].Side), inc,
                             timestamp, r.trades)
    IN  IF ~(b.ord[inc].RemainingQty > 0 /\ Len(opp) > 0)
        THEN [b |-> b, trades |-> trades]
        ELSE IF ~crosses(b.ord[inc], opp[1])
        THEN [b |-> b, trades |-> trades]
        ELSE next(walkLevel(b, inc, timestamp, 1, trades))

\* Book.match
match(b, inc, timestamp) == matchLoop(b, inc, timestamp, <<>>)

\* a faulty search: the start of the range, whatever the prices
searchLevelsFirst(levels, price, descending, i, j) == i

\* sort.Search(n, f): binary search for the least index in 0..n at which f
\* holds; f is insertIntoLevels' closure
RECURSIVE searchLevels(_, _, _, _, _)
searchLevels(levels, price, descending, i, j) ==
    LET f(h) == IF descending THEN levels[h + 1].Price <= price
                ELSE levels[h + 1].Price >= price
        h    == (i + j) \div 2
    IN  IF ~(i < j) THEN i
        ELSE IF ~f(h) THEN searchLevels(levels, price, descending, h + 1, j)
        ELSE searchLevels(levels, price, descending, i, h)

\* a faulty insertion: the order is put at the head of an existing level
insertAtLevelHead(levels, id, price, idx) ==
    IF idx <= Len(levels) /\ levels[idx].Price = price
    THEN [levels EXCEPT ![idx].Orders = <<id>> \o @]
    ELSE InsertAt(levels, idx, [Price |-> price, Orders |-> <<id>>])

\* insertIntoLevels, after the search: append to the level found at (1-based)
\* idx or insert a new level there
insertAtLevel(levels, id, price, idx) ==
    IF idx <= Len(levels) /\ levels[idx].Price = price
    THEN [levels EXCEPT ![idx].Orders = Append(@, id)]
    ELSE InsertAt(levels, idx, [Price |-> price, Orders |-> <<id>>])

\* insertIntoLevels
insertIntoLevels(levels, id, price, descending) ==
    insertAtLevel(levels, id, price,
                  searchLevels(levels, price, descending, 0, Len(levels)) + 1)

\* Book.insert
insert(b, id) ==
    IF b.ord[id].Side = Buy
    THEN [b EXCEPT !.orderIndex = @ \cup {b.ord[id].ID},
                   !.Bids = insertIntoLevels(@, id, b.ord[id].Price, TRUE)]
    ELSE [b EXCEPT !.orderIndex = @ \cup {b.ord[id].ID},
                   !.Asks = insertIntoLevels(@, id, b.ord[id].Price, FALSE)]

\* removeOrder, inner loop: the first order of the level with the id
RECURSIVE findOrder(_, _, _, _)
findOrder(ord, ids, id, j) ==
    IF j > Len(ids) THEN 0
    ELSE IF ord[ids[j]].ID = id THEN j
    ELSE findOrder(ord, ids, id, j + 1)

\* a faulty removal: the level is kept even when its last order leaves
removeAtKeepLevel(levels, i, j) == [levels EXCEPT ![i].Orders = RemoveAt(@, j)]

\* removeOrder: the order found at j of level i is taken out, and the level
\* with it if it was alone
removeAt(levels, i, j) ==
    IF Len(levels[i].Orders) = 1 THEN RemoveAt(levels, i)
    ELSE [levels EXCEPT ![i].Orders = RemoveAt(@, j)]

\* removeOrder, outer loop over the levels of the order's side
RECURSIVE removeFromLevels(_, _, _, _)
removeFromLevels(ord, levels, order, i) ==
    LET found(j) == IF j = 0 THEN removeFromLevels(ord, levels, order, i + 1)
                    ELSE removeAt(levels, i, j)
    IN  IF i > Len(levels) THEN levels
        ELSE IF levels[i].Price # order.Price
        THEN removeFromLevels(ord, levels, order, i + 1)
        ELSE found(findOrder(ord, levels[i].Orders, order.ID, 1))

\* Book.removeOrder
removeOrder(b, id) ==
    IF b.ord[id].Side = Buy
    THEN [b EXCEPT !.Bids = removeFromLevels(b.ord, @, b.ord[id], 1)]
    ELSE [b EXCEPT !.Asks = removeFromLevels(b.ord, @, b.ord[id], 1)]

\* `return trades, b.BBO()`: what ProcessOrder returns, with the book it leaves
result(b, trades) == [b |-> b, trades |-> trades, bbo |-> BBO(b)]

\* Book.processLimit
processLimit(b, id, timestamp) ==
    LET rest(r) == result(IF r.b.ord[id].RemainingQty > 0 THEN insert(r.b, id)
                          ELSE r.b, r.trades)
    IN  rest(match([b EXCEPT !.ord[id].RemainingQty = b.ord[id].Qty], id,
                   timestamp))

\* a faulty processMarket: the unfilled remainder is left on the book
processMarketResting(b, id, timestamp) == processLimit(b, id, timestamp)

\* Book.processMarket
processMarket(b, id, timestamp) ==
    LET done(r) == result(r.b, r.trades)
    IN  done(match([b EXCEPT !.ord[id].RemainingQty = b.ord[id].Qty], id,
                   timestamp))

\* a faulty processCancel: no BBO is computed when the target is not resting
processCancelNoBBO(b, id) ==
    LET target == b.ord[id].CancelID
    IN  IF target \notin b.orderIndex \/ b.ord[target].RemainingQty <= 0
        THEN [b |-> b, trades |-> <<>>, bbo |-> makeBBO(0, 0, 0, 0)]
        ELSE result([removeOrder([b EXCEPT !.ord[target].RemainingQty = 0],
                                 target)
                       EXCEPT !.orderIndex = @ \ {b.ord[target].ID}], <<>>)

\* Book.processCancel
processCancel(b, id) ==
    LET target == b.ord[id].CancelID
    IN  IF target \notin b.orderIndex \/ b.ord[target].RemainingQty <= 0
        THEN result(b, <<>>)
        ELSE result([removeOrder([b EXCEPT !.ord[target].RemainingQty = 0],
                                 target)
                       EXCEPT !.orderIndex = @ \ {b.ord[target].ID}], <<>>)

\* Book.ProcessOrder; the order object is b.ord[id]
ProcessOrder(b, id, timestamp) ==
    CASE b.ord[id].Type = LimitOrder  -> processLimit(b, id, timestamp)
      [] b.ord[id].Type = MarketOrder -> processMarket(b, id, timestamp)
      [] b.ord[id].Type = CancelOrder -> processCancel(b, id)

\* QueuePosition: the position in the first level of the order's price that
\* holds the order, from level i on; 0 if there is none
RECURSIVE positionFrom(_, _, _, _)
positionFrom(ord, levels, order, i) ==
    LET found(j) == IF j = 0 THEN positionFrom(ord, levels, order, i + 1) ELSE j
    IN  IF i > Len(levels) THEN 0
        ELSE IF levels[i].Price # order.Price
        THEN positionFrom(ord, levels, order, i + 1)
        ELSE found(findOrder(ord, levels[i].Orders, order.ID, 1))

\* a faulty QueuePosition: the 0-based index
QueuePositionFromZero(b, orderID) ==
    IF orderID \notin b.orderIndex THEN 0
    ELSE positionFrom(b.ord,
                      IF b.ord[orderID].Side = Buy THEN b.Bids ELSE b.Asks,
                      b.ord[orderID], 1) - 1

\* Book.QueuePosition
QueuePosition(b, orderID) ==
    IF orderID \notin b.orderIndex THEN 0
    ELSE positionFrom(b.ord,
                      IF b.ord[orderID].Side = Buy THEN b.Bids ELSE b.Asks,
                      b.ord[orderID], 1)

\* AssertInvariants: the number of orders in the levels of a side
RECURSIVE countOrders(_)
countOrders(levels) ==
    IF levels = <<>> THEN 0
    ELSE Len(Head(levels).Orders) + countOrders(Tail(levels))

\* Book.AssertInvariants: TRUE where the Go method returns, FALSE where it panics
AssertInvariants(b) ==
    /\ \A i \in 2..Len(b.Bids) : ~(b.Bids[i].Price >= b.Bids[i - 1].Price)
    /\ \A i \in 2..Len(b.Asks) : ~(b.Asks[i].Price <= b.Asks[i - 1].Price)
    /\ Len(b.Bids) > 0 /\ Len(b.Asks) > 0 => ~(b.Bids[1].Price >= b.Asks[1].Price)
    /\ \A i \in 1..Len(b.Bids) : Len(b.Bids[i].Orders) # 0
    /\ \A i \in 1..Len(b.Asks) : Len(b.Asks[i].Orders) # 0
    /\ \A i \in 1..Len(b.Bids) : \A j \in 1..Len(b.Bids[i].Orders) :
           b.ord[b.Bids[i].Orders[j]].RemainingQty > 0
    /\ \A i \in 1..Len(b.Asks) : \A j \in 1..Len(b.Asks[i].Orders) :
           b.ord[b.Asks[i].Orders[j]].RemainingQty > 0
    /\ countOrders(b.Bids) + countOrders(b.Asks) = Cardinality(b.orderIndex)

-----------------------------------------------------------------------------
(* engine.EventLoop: a container/heap min-heap of events on a slice.       *)
(* Slice indices are 0-based as in Go; h[i + 1] is the Go h[i].            *)

\* a faulty Less: the timestamp alone, with no tie-break
LessByTime(h, i, j) == h[i + 1].Timestamp < h[j + 1].Timestamp

\* eventHeap.Less
Less(h, i, j) ==
    IF h[i + 1].Timestamp # h[j + 1].Timestamp
    THEN h[i + 1].Timestamp < h[j + 1].Timestamp
    ELSE h[i + 1].SeqNo < h[j + 1].SeqNo

\* eventHeap.Swap
Swap(h, i, j) == [h EXCEPT ![i + 1] = h[j + 1], ![j + 1] = h[i + 1]]

\* container/heap up(h, j), as heap.Push runs it with Less and Swap
RECURSIVE up(_, _)
up(h, j) ==
    LET i == IF j = 0 THEN 0 ELSE (j - 1) \div 2
    IN  IF i = j \/ ~Less(h, j, i) THEN h ELSE up(Swap(h, i, j), i)

\* container/heap down(h, i, n), as heap.Pop runs it with Less and Swap
RECURSIVE down(_, _, _)
down(h, i, n) ==
    LET j1 == 2 * i + 1
    IN  IF j1 >= n THEN h
        ELSE LET j2 == j1 + 1
                 j  == IF j2 < n /\ Less(h, j2, j1) THEN j2 ELSE j1
             IN  IF ~Less(h, j, i) THEN h ELSE down(Swap(h, i, j), j, n)

\* heap.Push(&el.queue, x): eventHeap.Push appends, then up
heapPush(h, x) == up(Append(h, x), Len(h))

\* heap.Pop(&el.queue): swap first and last, down, then eventHeap.Pop
heapPop(h) ==
    LET n  == Len(h) - 1
        h1 == down(Swap(h, 0, n), 0, n)
    IN  [item |-> h1[n + 1], queue |-> SubSeq(h1, 1, n)]

\* engine.NewEventLoop
NewEventLoop == [queue |-> <<>>, seqNo |-> 0, EventsProcessed |-> 0,
                 CurrentTime |-> 0]

\* a faulty Schedule: the counter is read but not advanced
ScheduleNoCount(el, event) ==
    [el EXCEPT !.queue = heapPush(@, [event EXCEPT !.SeqNo = el.seqNo + 1])]

\* EventLoop.Schedule
Schedule(el, event) ==
    [el EXCEPT !.seqNo = @ + 1,
               !.queue = heapPush(@, [event EXCEPT !.SeqNo = el.seqNo + 1])]

\* the loop `for _, e := range events { el.Schedule(e) }`
RECURSIVE ScheduleAll(_, _)
ScheduleAll(el, events) ==
    IF events = <<>> THEN el
    ELSE ScheduleAll(Schedule(el, Head(events)), Tail(events))

\* EventLoop.Pending
Pending(el) == Len(el.queue)

-----------------------------------------------------------------------------
(* math/rand: a seeded rand.Rand is a fixed stream of draws.  A draw is    *)
(* the generator's raw output in hundredths of its range, 0..99: `rng` is  *)
(* the stream, read cyclically, and `at` the position of the next draw.    *)

\* one raw draw of a generator g: the value and the generator advanced
draw(g) == [v |-> g.rng[g.at], g |-> [g EXCEPT !.at = (g.at % Len(g.rng)) + 1]]

\* rand.Int63n(n) and rand.Intn(n) of the raw draw r: a value of 0..n-1
Int63n(r, n) == IF n >= 100 THEN (n \div 100) * r ELSE (r * n) \div 100

\* rand.NormFloat64() of the raw draw r, in hundredths: negative below the
\* middle of the range, positive above, unbounded in Go and here within 3.0
NormFloat64(r) == (r - 50) * 6

-----------------------------------------------------------------------------
(* latency.Model *)

NsPerMs == 1000000

\* latency.MsToNs
MsToNs(ms) == ms * NsPerMs

\* latency.NewModel; the seed is the stream it determines
NewModel(baseNs, jitterNs, stream) ==
    [BaseNs |-> baseNs, JitterNs |-> jitterNs, rng |-> stream, at |-> 1]

\* a faulty Apply: the base latency is taken off the decision time
ApplyEarly(m, decisionTime) ==
    [arrival |-> decisionTime - m.BaseNs, m |-> m]

\* a faulty Apply: the whole jitter range is added, whatever the draw
ApplyFullJitter(m, decisionTime) ==
    [arrival |-> decisionTime + m.BaseNs + m.JitterNs, m |-> m]

\* Model.Apply: the arrival time, and the model with its stream advanced
Apply(m, decisionTime) ==
    IF m.JitterNs > 0
    THEN [arrival |-> decisionTime + m.BaseNs + Int63n(draw(m).v, m.JitterNs),
          m |-> draw(m).g]
    ELSE [arrival |-> decisionTime + m.BaseNs, m |-> m]

-----------------------------------------------------------------------------
(* trader.Agent and trader.Strategy.  ActiveOrders is the key set of the   *)
(* Go map (the values are the Order objects in the memory).  Signal values *)
(* are float64 in Go; the model keeps them in hundredths.                  *)

ValueScale == 100

\* NewStrategy: the strategy's parameters
ReQuoteIntervalNs == MsToNs(100)
CancelTimeoutNs == MsToNs(500)
CrossThreshold == 1 * ValueScale
TargetQty == 5

\* trader.NewAgent
NewAgent(id, lat, idBase) ==
    [ID |-> id, Latency |-> lat, nextID |-> idBase, idBase |-> idBase,
     ActiveOrders |-> {}, lastSignalValue |-> 0, lastActionTime |-> 0]

\* Agent.allocateID: the agent after the call; the id returned is its nextID
allocateID(a) == [a EXCEPT !.nextID = @ + 1]

\* sort.Slice(activeIDs, less by id): each id inserted at its place
RECURSIVE SortIDs(_)
SortIDs(s) ==
    LET place(rest, x) ==
            InsertAt(rest, Cardinality({i \in 1..Len(rest) : rest[i] < x}) + 1, x)
    IN  IF s = <<>> THEN <<>> ELSE place(SortIDs(Tail(s)), Head(s))

\* the sequences a `for id := range agent.ActiveOrders` can visit the keys in
IterationOrders(S) ==
    {s \in [1..Cardinality(S) -> S] : \A i, j \in 1..Cardinality(S) :
                                          i # j => s[i] # s[j]}

\* a faulty collection: the ids in the order the map gave them, unsorted
collectUnsorted(iter) == iter

\* Decide, the key-collecting loop followed by the sort
collectActiveIDs(iter) == SortIDs(iter)

\* Decide: `orders = append(orders, order)` with the id from allocateID; st is
\* the agent and the orders so far
emit(st, side, type, price, qty, cancelID, currentTime) ==
    [agent |-> allocateID(st.agent),
     orders |-> Append(st.orders,
                       Order(st.agent.nextID + 1, st.agent.ID, side, type,
                             price, qty, cancelID, currentTime))]

\* a faulty step 1: an order is cancelled as soon as its age reaches the
\* timeout
RECURSIVE staleCancelsAtTimeout(_, _, _, _, _)
staleCancelsAtTimeout(st, ord, activeIDs, currentTime, k) ==
    IF k > Len(activeIDs) THEN st
    ELSE IF currentTime - ord[activeIDs[k]].DecisionTime >= CancelTimeoutNs
    THEN staleCancelsAtTimeout(
             emit(st, 0, CancelOrder, 0, 0, activeIDs[k], currentTime),
             ord, activeIDs, currentTime, k + 1)
    ELSE staleCancelsAtTimeout(st, ord, activeIDs, currentTime, k + 1)

\* Decide, step 1: a cancel for every active order older than the timeout
RECURSIVE staleCancels(_, _, _, _, _)
staleCancels(st, ord, activeIDs, currentTime, k) ==
    IF k > Len(activeIDs) THEN st
    ELSE IF currentTime - ord[activeIDs[k]].DecisionTime > CancelTimeoutNs
    THEN staleCancels(emit(st, 0, CancelOrder, 0, 0, activeIDs[k], currentTime),
                      ord, activeIDs, currentTime, k + 1)
    ELSE staleCancels(st, ord, activeIDs, currentTime, k + 1)

\* Decide: `s.lastSignalValue = signal.Value; s.lastActionTime = currentTime`
acted(st, signal, currentTime) ==
    [st EXCEPT !.agent.lastSignalValue = signal.Value,
               !.agent.lastActionTime = currentTime]

\* a faulty step 3: the limit order is priced across the spread
postAcross(st, wanted, side, price, currentTime) ==
    IF wanted
    THEN emit(st, side, LimitOrder, price + side * 200, TargetQty, 0, currentTime)
    ELSE st

\* Decide, step 3: a limit order at the best price of each side the agent
\* has no active order on
post(st, wanted, side, price, currentTime) ==
    IF wanted THEN emit(st, side, LimitOrder, price, TargetQty, 0, currentTime)
    ELSE st

\* Decide, steps 2 and 3, after the cancels
decideAction(st, ord, activeIDs, signal, bbo, currentTime) ==
    IF signal.Value > CrossThreshold \/ signal.Value < -CrossThreshold
    THEN acted(emit(st, IF signal.Value > 0 THEN Buy ELSE Sell, MarketOrder, 0,
                    TargetQty, 0, currentTime), signal, currentTime)
    ELSE acted(post(post(st,
                         /\ ~\E i \in 1..Len(activeIDs) :
                                 ord[activeIDs[i]].Side = Buy
                         /\ bbo.BidPrice > 0,
                         Buy, bbo.BidPrice, currentTime),
                    /\ ~\E i \in 1..Len(activeIDs) : ord[activeIDs[i]].Side = Sell
                    /\ bbo.AskPrice > 0,
                    Sell, bbo.AskPrice, currentTime),
               signal, currentTime)

\* the steps of Decide on the sorted key list
decideOn(agent, ord, activeIDs, signal, bbo, currentTime) ==
    decideAction(staleCancels([agent |-> agent, orders |-> <<>>], ord,
                              activeIDs, currentTime, 1),
                 ord, activeIDs, signal, bbo, currentTime)

\* Strategy.Decide; iter is the order the map iteration visits ActiveOrders in
Decide(agent, ord, signal, bbo, currentTime, iter) ==
    decideOn(agent, ord, collectActiveIDs(iter), signal, bbo, currentTime)

\* a faulty OnSignal: the strategy decides on a one-sided book as well
OnSignalOneSided(agent, ord, signal, bbo, currentTime, iter) ==
    Decide(agent, ord, signal, bbo, currentTime, iter)

\* Agent.OnSignal
OnSignal(agent, ord, signal, bbo, currentTime, iter) ==
    IF bbo.BidPrice = 0 \/ bbo.AskPrice = 0
    THEN [agent |-> agent, orders |-> <<>>]
    ELSE Decide(agent, ord, signal, bbo, currentTime, iter)

\* a faulty OnFill: a filled order stays among the active orders
OnFillKeep(agent, ord, orderID) == agent

\* Agent.OnFill
OnFill(agent, ord, orderID) ==
    IF orderID \notin agent.ActiveOrders THEN agent
    ELSE IF ord[orderID].RemainingQty <= 0
    THEN [agent EXCEPT !.ActiveOrders = @ \ {orderID}]
    ELSE agent

\* Agent.OnCancelAck
OnCancelAck(agent, orderID) == [agent EXCEPT !.ActiveOrders = @ \ {orderID}]

-----------------------------------------------------------------------------
(* sim.Runner.  A handler is an operator from the runner and the event to  *)
(* the runner after the call and the events the handler returns.           *)

\* json.Marshal(event) as eventlog.Writer.Write appends it: the values the
\* event and its payload hold at the time of the write
LogRecord(event, ord) ==
    [seq_no |-> event.SeqNo, timestamp |-> event.Timestamp, type |-> event.Type,
     trader_id |-> event.TraderID,
     order |-> IF event.Order = 0 THEN Nil ELSE ord[event.Order],
     trade |-> event.Trade, bbo |-> event.BBO, signal |-> event.Signal]

\* Runner.logEvent
logEvent(r, event) == [r EXCEPT !.log = Append(@, LogRecord(event, r.book.ord))]

\* sim.NewRunner
NewRunner(c, fastStream, slowStream) ==
    [book |-> New, log |-> <<>>,
     fastAgent |-> NewAgent(c.FastTrader.ID,
                     NewModel(MsToNs(c.FastTrader.BaseLatencyMs),
                              MsToNs(c.FastTrader.JitterMs), fastStream), 1000000),
     slowAgent |-> NewAgent(c.SlowTrader.ID,
                     NewModel(MsToNs(c.SlowTrader.BaseLatencyMs),
                              MsToNs(c.SlowTrader.JitterMs), slowStream), 2000000),
     currentBBO |-> BBO(New), trades |-> <<>>, panicked |-> FALSE]

\* `if id == r.fastAgent.ID {f(fast)} else if id == r.slowAgent.ID {f(slow)}`
\* with f(a) given as the agent it leaves
onAgent(r, traderID, fast, slow) ==
    IF traderID = r.fastAgent.ID THEN [r EXCEPT !.fastAgent = fast]
    ELSE IF traderID = r.slowAgent.ID THEN [r EXCEPT !.slowAgent = slow]
    ELSE r

\* handleOrder: the queue position stamped on a limit order that rested
stampQueuePos(r, id) ==
    IF r.book.ord[id].Type = LimitOrder /\ r.book.ord[id].RemainingQty > 0
    THEN [r EXCEPT !.book.ord[id].QueuePos = QueuePosition(r.book, id)]
    ELSE r

\* handleOrder: a limit order of an agent enters its ActiveOrders
track(r, id) ==
    IF r.book.ord[id].Type = LimitOrder
    THEN onAgent(r, r.book.ord[id].TraderID,
                 [r.fastAgent EXCEPT !.ActiveOrders = @ \cup {r.book.ord[id].ID}],
                 [r.slowAgent EXCEPT !.ActiveOrders = @ \cup {r.book.ord[id].ID}])
    ELSE r

\* handleOrder: the agent of a cancel order is told of it
notifyCancel(r, id) ==
    onAgent(r, r.book.ord[id].TraderID,
            OnCancelAck(r.fastAgent, r.book.ord[id].CancelID),
            OnCancelAck(r.slowAgent, r.book.ord[id].CancelID))

\* handleOrder: the OrderCanceled record of a cancel order
ackCancel(r, id, timestamp) ==
    IF r.book.ord[id].Type = CancelOrder
    THEN notifyCancel(logEvent(r, Event(timestamp, EventOrderCanceled, "", id,
                                        Nil)), id)
    ELSE r

\* handleOrder: the agent on one side of a trade is told of the fill
notifyFill(r, traderID, orderID) ==
    onAgent(r, traderID, OnFill(r.fastAgent, r.book.ord, orderID),
            OnFill(r.slowAgent, r.book.ord, orderID))

\* handleOrder: the TradeExecuted record of a trade
logTrade(r, trade, timestamp) ==
    logEvent([r EXCEPT !.trades = Append(@, trade)],
             [Event(timestamp, EventTradeExecuted, "", 0, Nil)
                EXCEPT !.Trade = trade])

\* handleOrder, the loop over the trades of the call
RECURSIVE recordTrades(_, _, _, _)
recordTrades(r, trades, i, timestamp) ==
    IF i > Len(trades) THEN r
    ELSE recordTrades(
             notifyFill(notifyFill(logTrade(r, trades[i], timestamp),
                                   trades[i].BuyTrader, trades[i].BuyOrderID),
                        trades[i].SellTrader, trades[i].SellOrderID),
             trades, i + 1, timestamp)

\* a faulty handleOrder: the BBOUpdate record is written but the new BBO is
\* not kept
updateBBOLogOnly(r, bbo, timestamp) ==
    logEvent(r, [Event(timestamp, EventBBOUpdate, "", 0, Nil) EXCEPT !.BBO = bbo])

\* handleOrder: the new BBO kept and its BBOUpdate record
updateBBO(r, bbo, timestamp) ==
    logEvent([r EXCEPT !.currentBBO = bbo],
             [Event(timestamp, EventBBOUpdate, "", 0, Nil) EXCEPT !.BBO = bbo])

\* a faulty handleOrder: the order is logged as it was before the matcher
\* processed it
afterProcessEarly(r, event, res) ==
    IF ~AssertInvariants(res.b)
    THEN [r EXCEPT !.book = res.b, !.panicked = TRUE]
    ELSE updateBBO(
             recordTrades(
                 ackCancel(
                     track([logEvent(r, event) EXCEPT !.book = res.b],
                           event.Order),
                     event.Order, event.Timestamp),
                 res.trades, 1, event.Timestamp),
             res.bbo, event.Timestamp)

\* a faulty handleOrder: the trades of the order are logged before the order
afterProcessLate(r, event, res) ==
    IF ~AssertInvariants(res.b)
    THEN [r EXCEPT !.book = res.b, !.panicked = TRUE]
    ELSE updateBBO(
             ackCancel(
                 track(logEvent(recordTrades(
                                    stampQueuePos([r EXCEPT !.book = res.b],
                                                  event.Order),
                                    res.trades, 1, event.Timestamp), event),
                       event.Order),
                 event.Order, event.Timestamp),
             res.bbo, event.Timestamp)

\* handleOrder, after ProcessOrder returned res
afterProcess(r, event, res) ==
    IF ~AssertInvariants(res.b)
    THEN [r EXCEPT !.book = res.b, !.panicked = TRUE]
    ELSE updateBBO(
             recordTrades(
                 ackCancel(
                     track(logEvent(stampQueuePos([r EXCEPT !.book = res.b],
                                                  event.Order), event),
                           event.Order),
                     event.Order, event.Timestamp),
                 res.trades, 1, event.Timestamp),
             res.bbo, event.Timestamp)

\* a faulty handleOrder: the order event is returned for another round, a
\* millisecond later
handleOrderAgain(r, event) ==
    IF event.Order = 0 THEN [r |-> r, newEvents |-> <<>>]
    ELSE [r |-> afterProcess(r, event,
                             ProcessOrder(r.book, event.Order, event.Timestamp)),
          newEvents |-> <<[event EXCEPT !.Timestamp = @ + NsPerMs]>>]

\* Runner.handleOrder
handleOrder(r, event) ==
    IF event.Order = 0 THEN [r |-> r, newEvents |-> <<>>]
    ELSE [r |-> afterProcess(r, event,
                             ProcessOrder(r.book, event.Order, event.Timestamp)),
          newEvents |-> <<>>]

\* the loop `for _, order := range orders` of handleSignal and handleReQuote:
\* Latency.Apply per order, the arrival time stamped on the order, one
\* OrderAccepted event per order; st is the agent, the memory and the events
RECURSIVE deliver(_, _, _)
deliver(st, orders, i) ==
    LET sent(ap) ==
            [agent |-> [st.agent EXCEPT !.Latency = ap.m],
             ord |-> (orders[i].ID :> [orders[i] EXCEPT !.ArrivalTime = ap.arrival])
                     @@ st.ord,
             events |-> Append(st.events, Event(ap.arrival, EventOrderAccepted,
                                                "", orders[i].ID, Nil))]
    IN  IF i > Len(orders) THEN st
        ELSE deliver(sent(Apply(st.agent.Latency, orders[i].DecisionTime)),
                     orders, i + 1)

\* handleSignal and handleReQuote: one agent's OnSignal and the delivery of
\* its orders; st is the runner and the events to return
respond(st, isFast, signal, timestamp, iter) ==
    LET put(e) == [r |-> IF isFast
                         THEN [st.r EXCEPT !.fastAgent = e.agent,
                                           !.book.ord = e.ord]
                         ELSE [st.r EXCEPT !.slowAgent = e.agent,
                                           !.book.ord = e.ord],
                   newEvents |-> e.events]
        send(d) == put(deliver([agent |-> d.agent, ord |-> st.r.book.ord,
                                events |-> st.newEvents], d.orders, 1))
    IN  send(OnSignal(IF isFast THEN st.r.fastAgent ELSE st.r.slowAgent,
                      st.r.book.ord, signal, st.r.currentBBO, timestamp, iter))

\* a faulty handleSignal: the slow agent is served before the fast agent
broadcastSlowFirst(r, event, signal, iters) ==
    respond(respond([r |-> logEvent(r, [event EXCEPT !.Signal = signal]),
                     newEvents |-> <<>>],
                    FALSE, signal, event.Timestamp, iters.slow),
            TRUE, signal, event.Timestamp, iters.fast)

\* handleSignal with the mid price stamped on the signal: the log write,
\* then the fast agent, then the slow agent
broadcast(r, event, signal, iters) ==
    respond(respond([r |-> logEvent(r, [event EXCEPT !.Signal = signal]),
                     newEvents |-> <<>>],
                    TRUE, signal, event.Timestamp, iters.fast),
            FALSE, signal, event.Timestamp, iters.slow)

\* Runner.handleSignal
handleSignal(r, event, iters) ==
    IF event.Signal = Nil THEN [r |-> r, newEvents |-> <<>>]
    ELSE broadcast(r, event,
                   [event.Signal EXCEPT !.MidPrice = r.currentBBO.MidPrice],
                   iters)

\* Runner.handleReQuote
handleReQuote(r, event, iters) ==
    IF r.currentBBO.BidPrice = 0 \/ r.currentBBO.AskPrice = 0
    THEN [r |-> r, newEvents |-> <<>>]
    ELSE IF event.TraderID # r.fastAgent.ID /\ event.TraderID # r.slowAgent.ID
    THEN [r |-> r, newEvents |-> <<>>]
    ELSE respond([r |-> r, newEvents |-> <<>>],
                 event.TraderID = r.fastAgent.ID,
                 [Value |-> 0, MidPrice |-> r.currentBBO.MidPrice],
                 event.Timestamp,
                 IF event.TraderID = r.fastAgent.ID THEN iters.fast
                 ELSE iters.slow)

\* Runner.handleEvent
handleEvent(r, event, iters) ==
    CASE event.Type = EventOrderAccepted -> handleOrder(r, event)
      [] event.Type = EventSignal -> handleSignal(r, event, iters)
      [] event.Type = EventReQuote -> handleReQuote(r, event, iters)
      [] event.Type \in {EventSimStart, EventSimEnd} ->
             [r |-> logEvent(r, event), newEvents |-> <<>>]
      [] OTHER -> [r |-> r, newEvents |-> <<>>]

-----------------------------------------------------------------------------
(* scenario: the background order flow generator.  Rates are float64       *)
(* fractions in Go; the model keeps them in hundredths, like the draws.    *)

\* newBackgroundGen; the seed is the stream it determines
newBackgroundGen(c, stream) ==
    [cfg |-> c, rng |-> stream, at |-> 1, nextID |-> 100000,
     events |-> <<>>, orders |-> <<>>]

\* backgroundGen.nextOrderID: the generator after the call; the id returned
\* is its nextID
nextOrderID(g) == [g EXCEPT !.nextID = @ + 1]

\* backgroundGen.randSize: the size and the generator after the call
randSize(g) ==
    IF g.cfg.Scenario.MaxOrderSize <= g.cfg.Scenario.MinOrderSize
    THEN [v |-> g.cfg.Scenario.MinOrderSize, g |-> g]
    ELSE [v |-> g.cfg.Scenario.MinOrderSize
                  + Int63n(draw(g).v, g.cfg.Scenario.MaxOrderSize
                                      - g.cfg.Scenario.MinOrderSize + 1),
          g |-> draw(g).g]

\* backgroundGen.randSide
randSide(g) == [v |-> IF draw(g).v < 50 THEN Buy ELSE Sell, g |-> draw(g).g]

\* `events = append(events, &domain.Event{..., Order: order})`
emitOrder(g, timestamp, order) ==
    [g EXCEPT !.events = Append(@, Event(timestamp, EventOrderAccepted, "",
                                         order.ID, Nil)),
              !.orders = Append(@, order)]

\* generateInitialBook, one side: the levels from lvl on, DepthPerLevel
\* orders each; the id is taken by nextOrderID before the size is drawn
RECURSIVE initialSide(_, _, _, _, _)
initialSide(g, side, best, lvl, i) ==
    LET p == g.cfg.Scenario
        placed(sz, id) ==
            initialSide(emitOrder(sz.g, 0,
                            Order(id, "background", side, LimitOrder,
                                  IF side = Buy THEN best - lvl * p.PriceTickSize
                                  ELSE best + lvl * p.PriceTickSize,
                                  sz.v, 0, 0)),
                        side, best, lvl, i + 1)
    IN  IF ~(lvl < p.MaxPriceLevels) THEN g
        ELSE IF ~(i < p.DepthPerLevel) THEN initialSide(g, side, best, lvl + 1, 0)
        ELSE placed(randSize(nextOrderID(g)), g.nextID + 1)

\* backgroundGen.generateInitialBook
generateInitialBook(g) ==
    initialSide(initialSide(g, Buy, g.cfg.Scenario.InitialMidPrice
                                    - g.cfg.Scenario.InitialSpread \div 2, 0, 0),
                Sell, g.cfg.Scenario.InitialMidPrice
                      + g.cfg.Scenario.InitialSpread \div 2, 0, 0)

\* generateSignals, the loop: the value is NormFloat64() * 0.5
RECURSIVE signalLoop(_, _)
signalLoop(g, t) ==
    LET drawn(d) ==
            signalLoop([d.g EXCEPT !.events =
                           Append(@, Event(t, EventSignal, "", 0,
                                      [Value |-> (NormFloat64(d.v) * 5) \div 10,
                                       MidPrice |-> 0]))],
                       t + g.cfg.Scenario.SignalIntervalNs)
    IN  IF ~(t < g.cfg.Duration) THEN g ELSE drawn(draw(g))

\* backgroundGen.generateSignals
generateSignals(g) ==
    IF g.cfg.Scenario.SignalIntervalNs <= 0 THEN g
    ELSE signalLoop(g, g.cfg.Scenario.SignalIntervalNs)

\* CalmGenerator.Generate, the order flow loop.  The local operators are the
\* steps of one iteration, each named for the draw it has just made.
RECURSIVE flowLoop(_, _, _)
flowLoop(g, t, restingIDs) ==
    LET p    == g.cfg.Scenario
        next == t + p.OrderIntervalNs
        canceled(k, idx, eventTime) ==
            flowLoop(emitOrder(nextOrderID(k.g), eventTime,
                               Order(k.g.nextID + 1, "background", 0, CancelOrder,
                                     0, 0, restingIDs[idx], 0)),
                     next, RemoveAt(restingIDs, idx))
        cancel(k, eventTime) ==
            canceled(k, Int63n(k.v, Len(restingIDs)) + 1, eventTime)
        market(sz, side, id, eventTime) ==
            flowLoop(emitOrder(sz.g, eventTime,
                               Order(id, "background", side, MarketOrder, 0,
                                     sz.v, 0, 0)),
                     next, restingIDs)
        marketSide(sd, id, eventTime) ==
            market(randSize(sd.g), sd.v, id, eventTime)
        limit(sz, side, price, id, eventTime) ==
            flowLoop(emitOrder(sz.g, eventTime,
                               Order(id, "background", side, LimitOrder, price,
                                     sz.v, 0, 0)),
                     next, Append(restingIDs, id))
        limitAt(o, side, offset, id, eventTime) ==
            limit(randSize(o.g), side,
                  IF side = Buy
                  THEN p.InitialMidPrice - p.InitialSpread \div 2 - offset
                  ELSE p.InitialMidPrice + p.InitialSpread \div 2 + offset,
                  id, eventTime)
        limitOffset(o, side, id, eventTime) ==
            limitAt(o, side, Int63n(o.v, p.MaxPriceLevels) * p.PriceTickSize,
                    id, eventTime)
        limitSide(sd, id, eventTime) ==
            limitOffset(draw(sd.g), sd.v, id, eventTime)
        rolled(roll, eventTime) ==
            IF roll.v < p.CancelRate /\ Len(restingIDs) > 0
            THEN cancel(draw(roll.g), eventTime)
            ELSE IF roll.v < p.CancelRate + p.MarketOrderRatio
            THEN marketSide(randSide(nextOrderID(roll.g)), roll.g.nextID + 1,
                            eventTime)
            ELSE limitSide(randSide(nextOrderID(roll.g)), roll.g.nextID + 1,
                           eventTime)
        timed(j, eventTime) ==
            IF eventTime >= g.cfg.Duration THEN j.g
            ELSE rolled(draw(j.g), eventTime)
        jittered(j) == timed(j, t + Int63n(j.v, p.OrderIntervalNs \div 2))
    IN  IF ~(t < g.cfg.Duration) THEN g ELSE jittered(draw(g))

\* a sort by Timestamp that puts an event before the earlier ones of its
\* timestamp
RECURSIVE SortTiesReversed(_)
SortTiesReversed(events) ==
    LET place(rest, e) ==
            InsertAt(rest,
                     Cardinality({i \in 1..Len(rest) :
                                    rest[i].Timestamp < e.Timestamp}) + 1, e)
    IN  IF events = <<>> THEN <<>>
        ELSE place(SortTiesReversed(SubSeq(events, 1, Len(events) - 1)),
                   events[Len(events)])

\* sort.SliceStable(events, less by Timestamp)
RECURSIVE SortStable(_)
SortStable(events) ==
    LET place(rest, e) ==
            InsertAt(rest,
                     Cardinality({i \in 1..Len(rest) :
                                    rest[i].Timestamp <= e.Timestamp}) + 1, e)
    IN  IF events = <<>> THEN <<>>
        ELSE place(SortStable(SubSeq(events, 1, Len(events) - 1)),
                   events[Len(events)])

\* CalmGenerator.Generate: the batch of events, the Order objects made and
\* the events as they were appended before the sort
Generate(c, stream) ==
    LET made(g) == [events |-> SortStable(g.events), orders |-> g.orders,
                    generated |-> g.events]
    IN  made(flowLoop(generateSignals(generateInitialBook(
                          newBackgroundGen(c, stream))),
                      c.Scenario.OrderIntervalNs, <<>>))

-----------------------------------------------------------------------------
(* The book driven directly, as in book_test.go: any sequence of Limit,    *)
(* Market and Cancel orders with unique ids on an initially empty book.    *)

NoCall == [kind |-> "none", id |-> 0, trades |-> <<>>, bbo |-> BBO(New),
           pre |-> New]

\* the run's variables stay idle while the book is driven directly
Idle == [idle |-> TRUE]

BookInit ==
    /\ book = New
    /\ nextID = 1
    /\ last = NoCall
    /\ pc = "off" /\ cfg = Idle /\ gen = <<>> /\ loop = Idle
    /\ runner = Idle /\ hist = Idle

\* one ProcessOrder call on a freshly made order object
Call(order, kind) ==
    LET returned(r) ==
            /\ book' = r.b
            /\ nextID' = nextID + 1
            /\ last' = [kind |-> kind, id |-> order.ID, trades |-> r.trades,
                        bbo |-> r.bbo, pre |-> book]
            /\ UNCHANGED simVars
    IN  returned(ProcessOrder([book EXCEPT !.ord = (order.ID :> order) @@ @],
                              order.ID, nextID))

SubmitLimit ==
    /\ nextID <= MaxOps
    /\ \E s \in {Buy, Sell}, p \in 1..MaxPrice, q \in 1..MaxQty :
           Call(Order(nextID, BookTrader(nextID), s, LimitOrder, p, q, 0, 0), "limit")

SubmitMarket ==
    /\ nextID <= MaxOps
    /\ \E s \in {Buy, Sell}, q \in 1..MaxQty :
           Call(Order(nextID, BookTrader(nextID), s, MarketOrder, 0, q, 0, 0), "market")

SubmitCancel ==
    /\ nextID <= MaxOps
    /\ \E c \in 0..(nextID - 1) :
           Call(Order(nextID, BookTrader(nextID), 0, CancelOrder, 0, 0, c, 0), "cancel")

BookNext == SubmitLimit \/ SubmitMarket \/ SubmitCancel

SpecBook == BookInit /\ [][BookNext]_vars

TypeOKBook == AssertInvariants(book)

-----------------------------------------------------------------------------
(* Properties of the book, stated on the last ProcessOrder call: last.pre  *)
(* is the book before it, book the book after it, last.id the order.       *)

\* the ids held by the levels of a side
LevelIDs(levels) ==
    UNION {{levels[i].Orders[j] : j \in 1..Len(levels[i].Orders)} :
             i \in 1..Len(levels)}

\* the quantity of the first k - 1 trades
RECURSIVE TradedBefore(_, _)
TradedBefore(trades, k) ==
    IF k <= 1 THEN 0 ELSE trades[k - 1].Qty + TradedBefore(trades, k - 1)

\* the quantity the first k - 1 trades took from the resting order p
RECURSIVE FilledBefore(_, _, _)
FilledBefore(trades, k, p) ==
    IF k <= 1 THEN 0
    ELSE (IF trades[k - 1].PassiveOrderID = p THEN trades[k - 1].Qty ELSE 0)
         + FilledBefore(trades, k - 1, p)

\* the incoming order of the last call, as the call left it
Incoming == book.ord[last.id]

\* the orders of a level of the given price, <<>> if there is none
OrdersAt(levels, price) ==
    IF \E i \in 1..Len(levels) : levels[i].Price = price
    THEN levels[CHOOSE i \in 1..Len(levels) : levels[i].Price = price].Orders
    ELSE <<>>

\* the levels of a side without the level of the given price
Without(levels, price) == SelectSeq(levels, LAMBDA l : l.Price # price)

\* C1: after every ProcessOrder call on an initially empty book with unique
\* ids, bid prices are strictly descending, ask prices strictly ascending,
\* the best bid is below the best ask, no level is empty and every resting
\* order has remaining quantity above zero, so AssertInvariants never panics.
C1_BookInvariants ==
    /\ \A i \in 1..(Len(book.Bids) - 1) : book.Bids[i].Price > book.Bids[i + 1].Price
    /\ \A i \in 1..(Len(book.Asks) - 1) : book.Asks[i].Price < book.Asks[i + 1].Price
    /\ (book.Bids # <<>> /\ book.Asks # <<>>) => book.Bids[1].Price < book.Asks[1].Price
    /\ \A i \in 1..Len(book.Bids) : book.Bids[i].Orders # <<>>
    /\ \A i \in 1..Len(book.Asks) : book.Asks[i].Orders # <<>>
    /\ \A id \in LevelIDs(book.Bids) \cup LevelIDs(book.Asks) :
           book.ord[id].RemainingQty > 0
    /\ AssertInvariants(book)

\* a call that traded and left both sides of the book populated
C1_Witness ==
    /\ last.trades # <<>>
    /\ book.Bids # <<>> /\ book.Asks # <<>>

\* q has priority over p among the orders resting on one side: a better
\* price, or the same price and an earlier arrival (ids are given in the
\* order of arrival)
Better(ord, q, p) ==
    \/ ord[q].Side = Buy /\ ord[q].Price > ord[p].Price
    \/ ord[q].Side = Sell /\ ord[q].Price < ord[p].Price
    \/ ord[q].Price = ord[p].Price /\ q < p

\* C2: the trades of one ProcessOrder call respect price-time priority: no
\* resting order is filled while an order of the same side with a better
\* price, or with the same price and an earlier arrival, still has
\* remaining quantity.
C2_PriceTimePriority ==
    \A k \in 1..Len(last.trades) :
        \A q \in last.pre.orderIndex :
            LET p == last.trades[k].PassiveOrderID
            IN  (/\ last.pre.ord[q].Side = last.pre.ord[p].Side
                 /\ Better(last.pre.ord, q, p))
                => FilledBefore(last.trades, k, q) = last.pre.ord[q].RemainingQty

\* a call that filled two orders resting at one price
C2_Witness ==
    /\ Len(last.trades) = 2
    /\ last.trades[1].PassiveOrderID # last.trades[2].PassiveOrderID
    /\ last.trades[1].Price = last.trades[2].Price

\* C3: every trade has a quantity above zero equal to the smaller of the
\* aggressor's and the passive order's remaining quantity at the fill, the
\* price of the passive order, different buy and sell order ids, and
\* different buy and sell traders when the two orders' traders differ.
C3_TradeWellFormed ==
    \A k \in 1..Len(last.trades) :
        LET t == last.trades[k]
            p == last.pre.ord[t.PassiveOrderID]
        IN  /\ t.Qty > 0
            /\ t.Qty <= Incoming.Qty - TradedBefore(last.trades, k)
            /\ t.Qty <= p.RemainingQty
                        - FilledBefore(last.trades, k, t.PassiveOrderID)
            /\ \/ t.Qty = Incoming.Qty - TradedBefore(last.trades, k)
               \/ t.Qty = p.RemainingQty
                          - FilledBefore(last.trades, k, t.PassiveOrderID)
            /\ t.Price = p.Price
            /\ t.AggressorOrderID = last.id
            /\ t.PassiveOrderID \in last.pre.orderIndex
            /\ {t.BuyOrderID, t.SellOrderID} = {last.id, t.PassiveOrderID}
            /\ t.BuyOrderID # t.SellOrderID
            /\ Incoming.TraderID # p.TraderID => t.BuyTrader # t.SellTrader

\* a fill bounded by the passive order, between two traders
C3_Witness ==
    /\ last.trades # <<>>
    /\ last.trades[1].Qty < Incoming.Qty
    /\ last.trades[1].BuyTrader # last.trades[1].SellTrader

\* C9: a limit order first trades with the opposite side without trading
\* through its limit price; a remainder rests at the order's own price, at
\* the tail of the level of that price or in a new level, the other levels
\* untouched; an order with no remainder does not rest.
C9_LimitRests ==
    last.kind = "limit" =>
        LET o    == Incoming
            own  == IF o.Side = Buy THEN book.Bids ELSE book.Asks
            opp  == IF o.Side = Buy THEN book.Asks ELSE book.Bids
            pown == IF o.Side = Buy THEN last.pre.Bids ELSE last.pre.Asks
        IN  /\ \A k \in 1..Len(last.trades) :
                   IF o.Side = Buy THEN last.trades[k].Price <= o.Price
                   ELSE last.trades[k].Price >= o.Price
            /\ o.RemainingQty = o.Qty - TradedBefore(last.trades, Len(last.trades) + 1)
            /\ o.RemainingQty > 0 =>
                   /\ opp # <<>> =>
                          IF o.Side = Buy THEN opp[1].Price > o.Price
                          ELSE opp[1].Price < o.Price
                   /\ last.id \in book.orderIndex
                   /\ OrdersAt(own, o.Price) = Append(OrdersAt(pown, o.Price), last.id)
                   /\ Without(own, o.Price) = Without(pown, o.Price)
            /\ o.RemainingQty = 0 =>
                   /\ last.id \notin book.orderIndex
                   /\ last.id \notin LevelIDs(book.Bids) \cup LevelIDs(book.Asks)
                   /\ own = pown

\* a limit order that traded and rested its remainder
C9_Witness ==
    /\ last.kind = "limit"
    /\ last.trades # <<>>
    /\ last.id \in book.orderIndex

\* C10: a market order never rests, in no level and not in the index; on an
\* empty opposite side it makes no trade and leaves levels and index as
\* they were.
C10_MarketNeverRests ==
    last.kind = "market" =>
        /\ last.id \notin book.orderIndex
        /\ last.id \notin LevelIDs(book.Bids) \cup LevelIDs(book.Asks)
        /\ oppositeSide(last.pre, Incoming.Side) = <<>> =>
               /\ last.trades = <<>>
               /\ book.Bids = last.pre.Bids
               /\ book.Asks = last.pre.Asks
               /\ book.orderIndex = last.pre.orderIndex

\* a market order that swept the opposite side and had quantity left
C10_Witness ==
    /\ last.kind = "market"
    /\ last.trades # <<>>
    /\ Incoming.RemainingQty > 0

\* the quantity the trades of the last call took from the resting order p
Filled(p) == FilledBefore(last.trades, Len(last.trades) + 1, p)

\* the resting orders the last call filled in part
PartiallyFilled ==
    {p \in last.pre.orderIndex :
        Filled(p) > 0 /\ Filled(p) < last.pre.ord[p].RemainingQty}

\* the levels of the side the order p rests on
SideOf(b, p) == IF b.ord[p].Side = Buy THEN b.Bids ELSE b.Asks

\* the (1-based) place of x in the sequence s, 0 if it is not there
IndexOf(s, x) ==
    IF \E i \in 1..Len(s) : s[i] = x
    THEN CHOOSE i \in 1..Len(s) : s[i] = x
    ELSE 0

\* C11: a resting order that is filled in part stays in the order index and
\* at the front of its price level, its remaining quantity reduced by
\* exactly the fill, and the orders behind it keep their order.
C11_PartialFillStays ==
    \A p \in PartiallyFilled :
        LET was == OrdersAt(SideOf(last.pre, p), last.pre.ord[p].Price)
            now == OrdersAt(SideOf(book, p), book.ord[p].Price)
        IN  /\ p \in book.orderIndex
            /\ book.ord[p].RemainingQty = last.pre.ord[p].RemainingQty - Filled(p)
            /\ book.ord[p].Price = last.pre.ord[p].Price
            /\ SideOf(book, p)[1].Price = book.ord[p].Price
            /\ now # <<>> /\ now[1] = p
            /\ now = SubSeq(was, IndexOf(was, p), Len(was))

\* an order was filled in part with another order queued behind it
C11_Witness ==
    \E p \in PartiallyFilled :
        Len(OrdersAt(SideOf(book, p), book.ord[p].Price)) >= 2

\* the levels of a side without the order x, a level that held nothing else
\* dropped
Strip(levels, x) ==
    SelectSeq([i \in 1..Len(levels) |->
                  [levels[i] EXCEPT !.Orders = SelectSeq(@, LAMBDA o : o # x)]],
              LAMBDA l : l.Orders # <<>>)

\* the last call was a Cancel and its target was resting on the book
CancelOfResting ==
    last.kind = "cancel" /\ Incoming.CancelID \in last.pre.orderIndex

\* C12: a Cancel of a resting order removes exactly that order: its
\* remaining quantity becomes zero, it leaves its level and the index, a
\* level left empty is dropped, there is no trade, and every other resting
\* order keeps its price, quantity and place.
C12_CancelRemovesTarget ==
    CancelOfResting =>
        LET target == Incoming.CancelID
        IN  /\ book.ord[target].RemainingQty = 0
            /\ book.ord[target].Qty = last.pre.ord[target].Qty
            /\ book.orderIndex = last.pre.orderIndex \ {target}
            /\ target \notin LevelIDs(book.Bids) \cup LevelIDs(book.Asks)
            /\ book.Bids = Strip(last.pre.Bids, target)
            /\ book.Asks = Strip(last.pre.Asks, target)
            /\ last.trades = <<>>
            /\ book.nextTradeID = last.pre.nextTradeID
            /\ \A q \in last.pre.orderIndex \ {target} :
                   book.ord[q] = last.pre.ord[q]

\* the canceled order had been filled in part before, and was alone in its
\* level
C12_Witness ==
    /\ CancelOfResting
    /\ last.pre.ord[Incoming.CancelID].RemainingQty
           < last.pre.ord[Incoming.CancelID].Qty
    /\ Len(OrdersAt(SideOf(last.pre, Incoming.CancelID),
                    last.pre.ord[Incoming.CancelID].Price)) = 1

\* C13: a Cancel whose target is not resting (unknown, filled or canceled
\* before) changes nothing: no trade, levels, index and orders as they
\* were, and the BBO returned is that of the unchanged book; a Cancel order
\* itself is never on the book.
C13_CancelNoop ==
    last.kind = "cancel" =>
        /\ last.id \notin book.orderIndex
        /\ last.id \notin LevelIDs(book.Bids) \cup LevelIDs(book.Asks)
        /\ Incoming.CancelID \notin last.pre.orderIndex =>
               /\ last.trades = <<>>
               /\ book.Bids = last.pre.Bids
               /\ book.Asks = last.pre.Asks
               /\ book.orderIndex = last.pre.orderIndex
               /\ book.nextTradeID = last.pre.nextTradeID
               /\ \A q \in DOMAIN last.pre.ord : book.ord[q] = last.pre.ord[q]
               /\ last.bbo = BBO(last.pre)

\* a Cancel of an order that a trade had filled, on a book that holds
\* another order
C13_Witness ==
    /\ last.kind = "cancel"
    /\ Incoming.CancelID \in DOMAIN last.pre.ord
    /\ Incoming.CancelID \notin last.pre.orderIndex
    /\ last.pre.ord[Incoming.CancelID].Type = LimitOrder
    /\ last.pre.nextTradeID > 0
    /\ last.pre.orderIndex # {}

\* C14: the keys of the order index are the ids held by the bid and ask
\* levels, each id in one place only, so an id is in the index exactly when
\* its order rests with remaining quantity above zero.
C14_IndexMatchesLevels ==
    /\ book.orderIndex = LevelIDs(book.Bids) \cup LevelIDs(book.Asks)
    /\ LevelIDs(book.Bids) \cap LevelIDs(book.Asks) = {}
    /\ countOrders(book.Bids) + countOrders(book.Asks)
           = Cardinality(book.orderIndex)
    /\ \A id \in DOMAIN book.ord :
           id \in book.orderIndex <=>
               /\ id \in LevelIDs(SideOf(book, id))
               /\ book.ord[id].RemainingQty > 0

\* a call that filled and removed one resting order, left another and
\* rested its own remainder
C14_Witness ==
    /\ last.trades # <<>>
    /\ last.id \in book.orderIndex
    /\ Cardinality(book.orderIndex) >= 2
    /\ \E p \in last.pre.orderIndex : p \notin book.orderIndex

\* the remaining quantity of the first n orders of the best level of a side
RECURSIVE BestQty(_, _, _)
BestQty(b, levels, n) ==
    IF n = 0 THEN 0
    ELSE b.ord[levels[1].Orders[n]].RemainingQty + BestQty(b, levels, n - 1)

\* the best price of a side and the quantity that rests at it, 0 and 0 for
\* an empty side
BestOf(b, levels) ==
    IF levels = <<>> THEN [price |-> 0, qty |-> 0]
    ELSE [price |-> levels[1].Price,
          qty |-> BestQty(b, levels, Len(levels[1].Orders))]

\* C22: BBO() gives the prices of the first bid and ask level (0 for an
\* empty side), the sums of the remaining quantities at those levels, and
\* the midpoint (bid + ask) / 2 by integer division, 0 if a side is empty.
C22_BBO ==
    /\ BBO(book).BidPrice = BestOf(book, book.Bids).price
    /\ BBO(book).BidQty = BestOf(book, book.Bids).qty
    /\ BBO(book).AskPrice = BestOf(book, book.Asks).price
    /\ BBO(book).AskQty = BestOf(book, book.Asks).qty
    /\ BBO(book).MidPrice =
           IF book.Bids # <<>> /\ book.Asks # <<>>
           THEN (book.Bids[1].Price + book.Asks[1].Price) \div 2
           ELSE 0
    /\ last.kind # "none" => last.bbo = BBO(book)

\* two orders rest at the best price of a side, the other side is not
\* empty and the sum of the best prices is odd
C22_Witness ==
    /\ book.Bids # <<>> /\ book.Asks # <<>>
    /\ Len(book.Bids[1].Orders) = 2 \/ Len(book.Asks[1].Orders) = 2
    /\ (book.Bids[1].Price + book.Asks[1].Price) % 2 = 1
    /\ last.kind = "limit"

\* the order is in a level of the book
OnBook(id) == id \in LevelIDs(book.Bids) \cup LevelIDs(book.Asks)

\* the orders of the level the resting order is in
LevelOf(id) == OrdersAt(SideOf(book, id), book.ord[id].Price)

\* C23: QueuePosition(id) is the 1-based index of a resting order within
\* its price level and 0 for an id that is not on the book (never placed,
\* filled or cancelled); for a Limit order that has just rested it is the
\* number of orders at its price, itself included.
C23_QueuePosition ==
    /\ \A id \in 1..nextID :
           QueuePosition(book, id) =
               IF OnBook(id) THEN IndexOf(LevelOf(id), id) ELSE 0
    /\ (last.kind = "limit" /\ OnBook(last.id)) =>
           QueuePosition(book, last.id) = Len(LevelOf(last.id))

\* a Limit order has just rested behind another one, after an order that
\* has left the book
C23_Witness ==
    /\ last.kind = "limit" /\ OnBook(last.id)
    /\ QueuePosition(book, last.id) = 2
    /\ \E id \in 1..(nextID - 1) : ~OnBook(id) /\ QueuePosition(book, id) = 0

\* the ids of the orders of the levels, best level first, FIFO in a level
RECURSIVE AllOrders(_)
AllOrders(levels) ==
    IF levels = <<>> THEN <<>>
    ELSE levels[1].Orders \o AllOrders(Tail(levels))

\* the orders opposite the incoming order that rested before the call and
\* that the first k - 1 trades of the call have not filled, in priority order
RestingAtFill(k) ==
    SelectSeq(AllOrders(oppositeSide(last.pre, Incoming.Side)),
              LAMBDA q : FilledBefore(last.trades, k, q)
                            < last.pre.ord[q].RemainingQty)

\* C29: every trade has resting_queue_pos = 1, and its passive order is the
\* first order of the best opposite level at the moment of the fill: the
\* passive orders filled earlier in the call have left the book, and a
\* passive order filled in part is the last one the call fills.
C29_PassiveIsFirst ==
    \A k \in 1..Len(last.trades) :
        /\ last.trades[k].RestingQueuePos = 1
        /\ RestingAtFill(k) # <<>>
        /\ last.trades[k].PassiveOrderID = RestingAtFill(k)[1]
        /\ FilledBefore(last.trades, k + 1, last.trades[k].PassiveOrderID)
               < last.pre.ord[last.trades[k].PassiveOrderID].RemainingQty
           => /\ k = Len(last.trades)
              /\ Incoming.RemainingQty = 0

\* a call that filled one resting order whole and the next one of the level
\* in part
C29_Witness ==
    /\ Len(last.trades) = 2
    /\ last.trades[1].Price = last.trades[2].Price
    /\ last.trades[2].PassiveOrderID \in book.orderIndex
    /\ Incoming.RemainingQty = 0

-----------------------------------------------------------------------------
(* Runner.Run on a scaled-down calm scenario: the strategy's 100 ms        *)
(* re-quote interval and 500 ms cancel timeout are the program's, the run  *)
(* is short enough to enumerate and long enough for orders to go stale.    *)

DurationMs == 800          \* cfg.Duration
OrderIntervalMs == 300     \* Scenario.OrderIntervalNs
SignalIntervalMs == 400    \* Scenario.SignalIntervalNs
Levels == 2                \* Scenario.MaxPriceLevels
Depth == 1                 \* Scenario.DepthPerLevel
GenPeriod == 3             \* period of the generator's draw stream

\* the draws a stream is made of: a low, a middling and a high one, which
\* the 0.10 cancel rate, the 0.15 market ratio and the 1.0 cross threshold
\* tell apart
Draws == {5, 20, 90}

\* latency profiles: the default one, one where both agents can arrive at
\* the same instant, one where the fast agent has jitter and its largest
\* delay stays below the slow agent's base, and one where the "fast" agent
\* is the slower one
Profiles ==
    { [fast |-> [ID |-> "fast", BaseLatencyMs |-> 1, JitterMs |-> 0],
       slow |-> [ID |-> "slow", BaseLatencyMs |-> 50, JitterMs |-> 10]],
      [fast |-> [ID |-> "fast", BaseLatencyMs |-> 50, JitterMs |-> 0],
       slow |-> [ID |-> "slow", BaseLatencyMs |-> 50, JitterMs |-> 10]],
      [fast |-> [ID |-> "fast", BaseLatencyMs |-> 40, JitterMs |-> 10],
       slow |-> [ID |-> "slow", BaseLatencyMs |-> 50, JitterMs |-> 10]],
      [fast |-> [ID |-> "fast", BaseLatencyMs |-> 60, JitterMs |-> 0],
       slow |-> [ID |-> "slow", BaseLatencyMs |-> 50, JitterMs |-> 10]] }

\* scenario.DefaultCalm, scaled down
Calm(profile) ==
    [Name |-> "calm", Duration |-> MsToNs(DurationMs),
     FastTrader |-> profile.fast, SlowTrader |-> profile.slow,
     Scenario |-> [InitialMidPrice |-> 1000000, InitialSpread |-> 200,
                   OrderIntervalNs |-> MsToNs(OrderIntervalMs),
                   MarketOrderRatio |-> 15, CancelRate |-> 10,
                   MinOrderSize |-> 3, MaxOrderSize |-> 4,
                   PriceTickSize |-> 100, MaxPriceLevels |-> Levels,
                   SignalIntervalNs |-> MsToNs(SignalIntervalMs),
                   DepthPerLevel |-> Depth]]

Configs == {Calm(p) : p \in Profiles}

GenStreams == [1..GenPeriod -> Draws]

\* the latency models' streams: jitter at the bottom and at the top of its
\* range; a model without jitter never draws
LatencyDraws == {0, 99}
FastStreams(c) == IF c.FastTrader.JitterMs > 0 THEN [1..1 -> LatencyDraws]
                  ELSE {<<0>>}
SlowStreams(c) == IF c.SlowTrader.JitterMs > 0 THEN [1..2 -> LatencyDraws]
                  ELSE {<<0>>}

NoHist == [dispatched |-> <<>>, pending |-> {}, processed |-> <<>>, origin |-> {}]

Init ==
    /\ pc = "new"
    /\ cfg \in Configs
    /\ gen \in GenStreams
    /\ loop = NewEventLoop
    /\ \E fs \in FastStreams(cfg), ss \in SlowStreams(cfg) :
           runner = NewRunner(cfg, fs, ss)
    /\ hist = NoHist
    /\ book = New /\ nextID = 1 /\ last = NoCall

\* Run: the re-quote pairs, fast agent first, every interval before Duration
RECURSIVE scheduleReQuotes(_, _, _, _)
scheduleReQuotes(el, r, c, t) ==
    IF ~(t < c.Duration) THEN el
    ELSE LET e1 == Schedule(el, Event(t, EventReQuote, r.fastAgent.ID, 0, Nil))
             e2 == Schedule(e1, Event(t, EventReQuote, r.slowAgent.ID, 0, Nil))
         IN  scheduleReQuotes(e2, r, c, t + ReQuoteIntervalNs)

\* the Order objects a batch of events points to, put into the memory
RECURSIVE store(_, _)
store(ord, orders) ==
    IF orders = <<>> THEN ord
    ELSE store((Head(orders).ID :> Head(orders)) @@ ord, Tail(orders))

\* scenario.NewGenerator: the generator a configuration gets, by its type
NewGenerator(c) ==
    CASE c.Name = "calm" -> "CalmGenerator"
      [] c.Name = "thin" -> "ThinGenerator"
      [] c.Name = "spike" -> "SpikeGenerator"
      [] OTHER -> "CalmGenerator"

\* Run: the batch of the generator put on the queue, then the re-quote
\* pairs, then SimEnd
seed(el, r, c, events) ==
    Schedule(IF ReQuoteIntervalNs > 0
             THEN scheduleReQuotes(ScheduleAll(el, events), r, c,
                                   ReQuoteIntervalNs)
             ELSE ScheduleAll(el, events),
             Event(c.Duration, EventSimEnd, "", 0, Nil))

\* Runner.Run up to the call of loop.Run
Setup ==
    /\ pc = "new"
    /\ NewGenerator(cfg) = "CalmGenerator"
    /\ LET started(r, g) ==
               /\ runner' = [r EXCEPT !.book.ord = store(@, g.orders)]
               /\ loop' = seed(loop, r, cfg, g.events)
       IN  started(logEvent(runner, Event(0, EventSimStart, "", 0, Nil)),
                   Generate(cfg, gen))
    /\ pc' = "running"
    /\ gen' = <<>>
    /\ UNCHANGED <<cfg, hist, bookVars>>

Key(e) == <<e.Timestamp, e.SeqNo>>

\* the history after the dispatch of event, which was popped from queue and
\* whose handler returned newEvents
Recorded(h, queue, event, newEvents) ==
    [dispatched |-> Append(h.dispatched,
                           [Timestamp |-> event.Timestamp, SeqNo |-> event.SeqNo,
                            Type |-> event.Type]),
     pending |-> {Key(queue[i]) : i \in 1..Len(queue)},
     processed |-> IF event.Type = EventOrderAccepted /\ event.Order # 0
                   THEN Append(h.processed, event.Order)
                   ELSE h.processed,
     origin |-> h.origin \cup
                {[id |-> newEvents[i].Order, type |-> event.Type,
                  at |-> event.Timestamp] : i \in 1..Len(newEvents)}]

\* one iteration of EventLoop.Run, for an event of the given type: pop,
\* advance the clock, call the handler, schedule what it returns.  The map
\* iterations of the handler visit the agents' orders in any order.
Dispatch(type) ==
    /\ Len(loop.queue) > 0
    /\ ~runner.panicked
    /\ LET handled(event, el, res) ==
               /\ runner' = res.r
               /\ loop' = ScheduleAll(el, res.newEvents)
               /\ hist' = Recorded(hist, loop.queue, event, res.newEvents)
           popped(p) ==
               /\ p.item.Type = type
               /\ \E fi \in IterationOrders(runner.fastAgent.ActiveOrders),
                     si \in IterationOrders(runner.slowAgent.ActiveOrders) :
                      handled(p.item,
                              [loop EXCEPT !.queue = p.queue,
                                           !.CurrentTime = p.item.Timestamp,
                                           !.EventsProcessed = @ + 1],
                              handleEvent(runner, p.item,
                                          [fast |-> fi, slow |-> si]))
       IN  popped(heapPop(loop.queue))
    /\ UNCHANGED <<pc, cfg, gen, bookVars>>

\* the iterations of loop.Run, by the type of the event at the head
DispatchOrder == pc = "running" /\ Dispatch(EventOrderAccepted)
DispatchSignal == pc = "running" /\ Dispatch(EventSignal)
DispatchReQuote == pc = "running" /\ Dispatch(EventReQuote)
DispatchSimEnd == pc = "running" /\ Dispatch(EventSimEnd)

\* loop.Run returns on an empty queue and Run closes the log
Finish ==
    /\ pc = "running"
    /\ Len(loop.queue) = 0
    /\ pc' = "closed"
    /\ UNCHANGED <<cfg, gen, loop, runner, hist, bookVars>>

Next ==
    \/ Setup
    \/ DispatchOrder
    \/ DispatchSignal
    \/ DispatchReQuote
    \/ DispatchSimEnd
    \/ Finish

Spec == Init /\ [][Next]_vars

-----------------------------------------------------------------------------
(* Properties of a run, stated on the log, the queue and the history of    *)
(* the dispatches.                                                         *)

\* the key a precedes or equals the key b, keys being <<timestamp, seq>>
KeyLE(a, b) == a[1] < b[1] \/ (a[1] = b[1] /\ a[2] <= b[2])

LastDispatched == hist.dispatched[Len(hist.dispatched)]

\* the records written inline by handleOrder
InlineTypes == {EventTradeExecuted, EventOrderCanceled, EventBBOUpdate}

\* one of the orders a map iteration can take
SomeOrder(S) == CHOOSE s \in IterationOrders(S) : TRUE

\* everything the next iteration of loop.Run does, for given map iterations
Outcome(iters) == handleEvent(runner, heapPop(loop.queue).item, iters)

\* C4: a run is determined by its configuration and seeds: the pending
\* events have distinct (timestamp, seq) keys, so the next event does not
\* depend on how the heap breaks ties, and what the handler logs, changes
\* and schedules is the same for every iteration order of the agents' maps.
C4_Deterministic ==
    (pc = "running" /\ Len(loop.queue) > 0 /\ ~runner.panicked) =>
        /\ \A i, j \in 1..Len(loop.queue) :
               i # j => Key(loop.queue[i]) # Key(loop.queue[j])
        /\ \A i \in 1..Len(loop.queue) :
               KeyLE(Key(heapPop(loop.queue).item), Key(loop.queue[i]))
        /\ \A fi \in IterationOrders(runner.fastAgent.ActiveOrders),
              si \in IterationOrders(runner.slowAgent.ActiveOrders) :
               Outcome([fast |-> fi, slow |-> si])
               = Outcome([fast |-> SomeOrder(runner.fastAgent.ActiveOrders),
                          slow |-> SomeOrder(runner.slowAgent.ActiveOrders)])

\* an agent with several active orders is about to decide, and it answers
\* with more than one order
C4_Witness ==
    /\ pc = "running" /\ Len(loop.queue) > 0 /\ ~runner.panicked
    /\ heapPop(loop.queue).item.Type \in {EventSignal, EventReQuote}
    /\ Cardinality(runner.fastAgent.ActiveOrders) >= 2
    /\ Len(Outcome([fast |-> SomeOrder(runner.fastAgent.ActiveOrders),
                    slow |-> SomeOrder(runner.slowAgent.ActiveOrders)]).newEvents) >= 2

\* C5: the loop dispatches the minimum of the pending events by
\* (timestamp, seq): the dispatched event precedes every event that was
\* pending with it, the dispatches are ascending in that key, and no two
\* pending events share a sequence number, so equal timestamps go in the
\* order of scheduling.
C5_DispatchAscending ==
    /\ hist.dispatched # <<>> =>
           \A k \in hist.pending : KeyLE(Key(LastDispatched), k)
    /\ \A i \in 1..(Len(hist.dispatched) - 1) :
           /\ KeyLE(Key(hist.dispatched[i]), Key(hist.dispatched[i + 1]))
           /\ Key(hist.dispatched[i]) # Key(hist.dispatched[i + 1])
    /\ \A i, j \in 1..Len(loop.queue) :
           i # j => loop.queue[i].SeqNo # loop.queue[j].SeqNo

\* the dispatched event overtook an event scheduled before it for a later
\* time, and went ahead of one scheduled after it for the same time
C5_Witness ==
    /\ hist.dispatched # <<>>
    /\ \E k \in hist.pending :
           k[1] > LastDispatched.Timestamp /\ k[2] < LastDispatched.SeqNo
    /\ \E k \in hist.pending :
           k[1] = LastDispatched.Timestamp /\ k[2] > LastDispatched.SeqNo

\* C6: the timestamps of the log never decrease: no pending event lies
\* before the time of the event being handled, and every trade, cancel and
\* BBO record carries the timestamp of the order record it follows.
C6_TimestampsNonDecreasing ==
    /\ \A i \in 1..(Len(runner.log) - 1) :
           runner.log[i].timestamp <= runner.log[i + 1].timestamp
    /\ \A i \in 1..Len(loop.queue) :
           pc = "running" => loop.queue[i].Timestamp >= loop.CurrentTime
    /\ \A i \in 1..Len(runner.log) :
           runner.log[i].type \in InlineTypes =>
               /\ i > 1
               /\ runner.log[i - 1].type \in InlineTypes \cup {EventOrderAccepted}
               /\ runner.log[i - 1].timestamp = runner.log[i].timestamp

\* the log holds a trade and, after it, the later order of an agent, which
\* the handler of a signal or a re-quote scheduled
C6_Witness ==
    \E i, j \in 1..Len(runner.log) :
        /\ i < j
        /\ runner.log[i].type = EventTradeExecuted
        /\ runner.log[j].type = EventOrderAccepted
        /\ runner.log[j].order.TraderID \in {"fast", "slow"}
        /\ runner.log[i].timestamp < runner.log[j].timestamp

\* C7: the seq_no values of the log are strictly increasing from each
\* record to the next, whatever the type of the records.
C7_SeqNoIncreasing ==
    \A i \in 1..(Len(runner.log) - 1) :
        runner.log[i].seq_no < runner.log[i + 1].seq_no

\* the place of an order in the sequence the matcher processed, 0 if it has
\* not been processed
ProcessedAt(id) ==
    IF \E i \in 1..Len(hist.processed) : hist.processed[i] = id
    THEN CHOOSE i \in 1..Len(hist.processed) : hist.processed[i] = id
    ELSE 0

\* orders of the fast and of the slow agent that answer the same signal,
\* or the two re-quotes of one instant
SameOrigin(f, s) ==
    /\ runner.book.ord[f.id].TraderID = runner.fastAgent.ID
    /\ runner.book.ord[s.id].TraderID = runner.slowAgent.ID
    /\ f.type = s.type
    /\ f.at = s.at

FastNeverLater ==
    cfg.FastTrader.BaseLatencyMs + cfg.FastTrader.JitterMs
        <= cfg.SlowTrader.BaseLatencyMs

\* C8: when the fast agent's largest delay does not exceed the slow agent's
\* smallest, every order of the fast agent for a signal or re-quote instant
\* is processed before every order of the slow agent for it, and at a
\* shared price level it is ahead in the queue.
C8_FastFirst ==
    FastNeverLater =>
        \A f, s \in hist.origin :
            SameOrigin(f, s) =>
                /\ ProcessedAt(s.id) # 0 =>
                       /\ ProcessedAt(f.id) # 0
                       /\ ProcessedAt(f.id) < ProcessedAt(s.id)
                /\ (/\ f.id \in runner.book.orderIndex
                    /\ s.id \in runner.book.orderIndex
                    /\ runner.book.ord[f.id].Side = runner.book.ord[s.id].Side
                    /\ runner.book.ord[f.id].Price = runner.book.ord[s.id].Price)
                   => QueuePosition(runner.book, f.id)
                      < QueuePosition(runner.book, s.id)

\* orders of both agents for one signal arrived at the same instant and
\* rest at one price level
C8_Witness ==
    /\ FastNeverLater
    /\ \E f, s \in hist.origin :
           /\ SameOrigin(f, s)
           /\ runner.book.ord[f.id].ArrivalTime = runner.book.ord[s.id].ArrivalTime
           /\ f.id \in runner.book.orderIndex
           /\ s.id \in runner.book.orderIndex
           /\ runner.book.ord[f.id].Side = runner.book.ord[s.id].Side
           /\ runner.book.ord[f.id].Price = runner.book.ord[s.id].Price

\* the events the handler of the last dispatch had scheduled: those in the
\* queue that were not pending before it
Spawned ==
    {loop.queue[i] : i \in {j \in 1..Len(loop.queue) :
                               Key(loop.queue[j]) \notin hist.pending}}

\* the sequence numbers given out so far, to pending and dispatched events
SeqNosInUse ==
    {loop.queue[i].SeqNo : i \in 1..Len(loop.queue)}
    \cup {hist.dispatched[i].SeqNo : i \in 1..Len(hist.dispatched)}

\* C15: Schedule gives out the sequence numbers 1, 2, 3, ... with none used
\* twice, so an event the handler returns has a number above that of the
\* event being dispatched and above that of every pending event of the same
\* timestamp; the book numbers the trades 1, 2, 3, ... across all calls.
C15_MonotonicCounters ==
    pc = "running" =>
        /\ SeqNosInUse = 1..loop.seqNo
        /\ Len(loop.queue) + Len(hist.dispatched) = loop.seqNo
        /\ hist.dispatched # <<>> =>
               \A e \in Spawned :
                   /\ e.SeqNo > LastDispatched.SeqNo
                   /\ \A k \in hist.pending : k[2] < e.SeqNo
        /\ \A i \in 1..Len(runner.trades) : runner.trades[i].ID = i
        /\ runner.book.nextTradeID = Len(runner.trades)

\* the handler returned an event for an instant at which an event was
\* already pending, after the book had made two trades
C15_Witness ==
    /\ pc = "running" /\ hist.dispatched # <<>>
    /\ \E e \in Spawned : \E k \in hist.pending : k[1] = e.Timestamp
    /\ Len(runner.trades) >= 2

\* a step of Run is possible: before loop.Run, and inside it until the
\* loop has returned (ENABLED <<Next>>_vars, read off the guards of Next)
RunEnabled ==
    \/ pc = "new"
    \/ pc = "running" /\ (Len(loop.queue) = 0 \/ ~runner.panicked)

\* Runner.Run with a loop that keeps running: `for el.queue.Len() > 0` takes
\* its next iteration, and Run goes on when the loop returns.  The second
\* fairness condition is WF_vars(Next) with its enabling condition written
\* out as RunEnabled.
SpecLive ==
    /\ Init /\ [][Next]_vars
    /\ WF_vars(Finish)
    /\ ([]<>(~RunEnabled) \/ []<><<Next>>_vars)

\* only the handlers of signals and re-quotes return events
Quiet ==
    hist.dispatched # <<>> =>
        /\ LastDispatched.Type \notin {EventSignal, EventReQuote}
               => Spawned = {}
        /\ \A e \in Spawned : e.Type = EventOrderAccepted

\* the loop has returned: nothing is pending and every scheduled event was
\* dispatched, once
Drained ==
    /\ pc = "closed"
    /\ Len(loop.queue) = 0
    /\ loop.EventsProcessed = loop.seqNo
    /\ Len(hist.dispatched) = loop.seqNo
    /\ {hist.dispatched[i].SeqNo : i \in 1..Len(hist.dispatched)} = 1..loop.seqNo

\* C17: a run terminates with an empty queue: the handler of an order, of
\* SimStart or of SimEnd returns no event and the handler of a Signal or a
\* ReQuote returns orders only, so the events to dispatch run out, and Run
\* dispatches every scheduled event once and stops.
C17_Terminates == []Quiet /\ <>Drained

\* a run that ended after agents' orders, scheduled by the handler, were
\* dispatched
C17_Witness ==
    /\ Drained
    /\ hist.origin # {}
    /\ loop.seqNo > Cardinality(hist.origin)

\* the log holds the record of the event dispatched as number i
Logged(i) ==
    \E j \in 1..Len(runner.log) :
        /\ runner.log[j].seq_no = hist.dispatched[i].SeqNo
        /\ runner.log[j].type = hist.dispatched[i].Type
        /\ runner.log[j].timestamp = hist.dispatched[i].Timestamp

\* C18: every event the loop has dispatched to the handler is in the event
\* log, and it is there when the events derived from it are in the queue.
C18_DispatchedAreLogged ==
    \A i \in 1..Len(hist.dispatched) : Logged(i)

\* the last of the inline records that follow record k without a gap
BlockEnd(k) ==
    CHOOSE j \in k..Len(runner.log) :
        /\ \A i \in (k + 1)..j : runner.log[i].type \in InlineTypes
        /\ j < Len(runner.log) => runner.log[j + 1].type \notin InlineTypes

\* the quantity of the trade records k + 1 .. j
RECURSIVE LoggedQty(_, _)
LoggedQty(k, j) ==
    IF j <= k THEN 0
    ELSE (IF runner.log[j].type = EventTradeExecuted
          THEN runner.log[j].trade.Qty ELSE 0) + LoggedQty(k, j - 1)

\* the records that follow the ORDER_ACCEPTED record k: a cancel record if
\* the order is a Cancel, the trades of the order, one BBO record
BlockOf(k) ==
    LET o == runner.log[k].order
        c == IF o.Type = CancelOrder THEN 1 ELSE 0
        e == BlockEnd(k)
    IN  /\ e >= k + c + 1
        /\ c = 1 => /\ runner.log[k + 1].type = EventOrderCanceled
                    /\ runner.log[k + 1].order = o
        /\ \A i \in (k + c + 1)..(e - 1) :
               /\ runner.log[i].type = EventTradeExecuted
               /\ runner.log[i].trade.AggressorOrderID = o.ID
               /\ i > k + c + 1 =>
                      runner.log[i].trade.ID = runner.log[i - 1].trade.ID + 1
        /\ e - 1 - k - c =
               Cardinality({i \in 1..Len(runner.trades) :
                               runner.trades[i].AggressorOrderID = o.ID})
        /\ runner.log[e].type = EventBBOUpdate
        /\ o.Type # CancelOrder => o.RemainingQty = o.Qty - LoggedQty(k, e)

\* C25: the records of a dispatched order are contiguous: ORDER_ACCEPTED
\* written after the matcher processed the order (its remaining_qty and
\* queue_pos are those of the book after the match), ORDER_CANCELED iff the
\* order is a Cancel, one TRADE_EXECUTED per trade in the matcher's order,
\* and one BBO_UPDATE with the BBO after the order.
C25_OrderRecords ==
    /\ \A k \in 1..Len(runner.log) :
           /\ runner.log[k].type = EventOrderAccepted => BlockOf(k)
           /\ runner.log[k].type \in InlineTypes =>
                  /\ k > 1
                  /\ runner.log[k - 1].type
                         \in InlineTypes \cup {EventOrderAccepted}
    /\ Cardinality({k \in 1..Len(runner.log) :
                        runner.log[k].type = EventOrderAccepted})
           = Cardinality({i \in 1..Len(hist.dispatched) :
                             hist.dispatched[i].Type = EventOrderAccepted})
    /\ (pc = "running" /\ hist.dispatched # <<>>
          /\ LastDispatched.Type = EventOrderAccepted) =>
           \E k \in 1..Len(runner.log) :
               /\ runner.log[k].type = EventOrderAccepted
               /\ runner.log[k].seq_no = LastDispatched.SeqNo
               /\ BlockEnd(k) = Len(runner.log)
               /\ runner.log[Len(runner.log)].bbo = BBO(runner.book)
               /\ runner.log[k].order = runner.book.ord[runner.log[k].order.ID]
               /\ runner.log[k].order.QueuePos =
                      IF runner.log[k].order.Type = LimitOrder
                      THEN QueuePosition(runner.book, runner.log[k].order.ID)
                      ELSE 0

\* the log holds an order that rested behind another one, an order with
\* two trades and a Cancel order, and an order was the last event handled
C25_Witness ==
    /\ pc = "running" /\ hist.dispatched # <<>>
    /\ LastDispatched.Type = EventOrderAccepted
    /\ \E k \in 1..Len(runner.log) :
           /\ runner.log[k].type = EventOrderAccepted
           /\ runner.log[k].order.Type = LimitOrder
           /\ runner.log[k].order.QueuePos > 1
    /\ \E k \in 1..Len(runner.log) :
           /\ runner.log[k].type = EventOrderAccepted
           /\ runner.log[k].order.Type # CancelOrder
           /\ BlockEnd(k) > k + 2
    /\ \E i \in 1..Len(runner.log) : runner.log[i].type = EventOrderCanceled

\* Runner.Run on a run long enough for the agents' first quotes to go stale,
\* with the signal interval twice the re-quote interval as in DefaultCalm:
\* the quotes posted at the first re-quote are cancelled after the 500 ms
\* timeout, and the next signal coincides with a re-quote.
LongDurationMs == 900
LongSignalIntervalMs == 200

LongConfigs ==
    {[Calm(p) EXCEPT !.Duration = MsToNs(LongDurationMs),
                     !.Scenario.SignalIntervalNs = MsToNs(LongSignalIntervalMs)] :
        p \in {q \in Profiles : q.fast.BaseLatencyMs = 1}}

LongInit ==
    /\ pc = "new"
    /\ cfg \in LongConfigs
    /\ gen \in GenStreams
    /\ loop = NewEventLoop
    /\ \E fs \in FastStreams(cfg), ss \in SlowStreams(cfg) :
           runner = NewRunner(cfg, fs, ss)
    /\ hist = NoHist
    /\ book = New /\ nextID = 1 /\ last = NoCall

SpecLong == LongInit /\ [][Next]_vars

\* the agent's Limit orders of a side that are on their way to the matcher
InFlight(agent, side) ==
    {loop.queue[i].Order :
        i \in {j \in 1..Len(loop.queue) :
                  /\ loop.queue[j].Type = EventOrderAccepted
                  /\ runner.book.ord[loop.queue[j].Order].TraderID = agent
                  /\ runner.book.ord[loop.queue[j].Order].Type = LimitOrder
                  /\ runner.book.ord[loop.queue[j].Order].Side = side}}

\* the agent's orders of a side that rest on the book
Resting(agent, side) ==
    {id \in runner.book.orderIndex :
        /\ runner.book.ord[id].TraderID = agent
        /\ runner.book.ord[id].Side = side}

\* C26: an agent has at most one live Limit order per side, in flight or
\* resting: post-at-best emits a Limit only when no order of the side is
\* scheduled or resting.
C26_OneLivePerSide ==
    pc = "running" =>
        \A agent \in {"fast", "slow"}, side \in {Buy, Sell} :
            Cardinality(InFlight(agent, side) \cup Resting(agent, side)) <= 1

\* the BBO the runner holds has an empty side
OneSided == runner.currentBBO.BidPrice = 0 \/ runner.currentBBO.AskPrice = 0

\* C28: on a one-sided book the dispatch of a Signal or of a ReQuote makes
\* neither agent emit an order, and schedules no event: the agents, the
\* orders known to the runner and the book stay as they were, and the queue
\* only loses the event dispatched.
C28_OneSidedSilent ==
    [][((DispatchSignal \/ DispatchReQuote) /\ OneSided) =>
           /\ runner'.fastAgent = runner.fastAgent
           /\ runner'.slowAgent = runner.slowAgent
           /\ runner'.book = runner.book
           /\ Len(loop'.queue) = Len(loop.queue) - 1
           /\ \A i \in 1..Len(loop'.queue) :
                  \E j \in 1..Len(loop.queue) : loop.queue[j] = loop'.queue[i]]_vars

\* a Signal has just been dispatched on a one-sided book, with both agents
\* constructed and a side of the book resting
C28_Witness ==
    /\ pc = "running"
    /\ Len(hist.dispatched) > 0
    /\ LastDispatched.Type = EventSignal
    /\ OneSided
    /\ runner.currentBBO.BidPrice + runner.currentBBO.AskPrice > 0
    /\ Spawned = {}

\* the Limit orders of the agent that rest on the book
RestingOf(agent) ==
    {id \in runner.book.orderIndex :
        /\ runner.book.ord[id].TraderID = agent
        /\ runner.book.ord[id].Type = LimitOrder}

\* the orders of the agent that have arrived at the matcher
ArrivedOf(agent) ==
    {hist.processed[i] :
        i \in {j \in 1..Len(hist.processed) :
                  runner.book.ord[hist.processed[j]].TraderID = agent}}

\* the orders that were the passive side of a trade
Passive == {runner.trades[i].PassiveOrderID : i \in 1..Len(runner.trades)}

\* C30: after every order event each agent's active orders are exactly the
\* agent's Limit orders that rest on the book: an order that was filled or
\* cancelled is in the set no more.
C30_ActiveIsResting ==
    pc = "running" =>
        /\ runner.fastAgent.ActiveOrders = RestingOf("fast")
        /\ runner.slowAgent.ActiveOrders = RestingOf("slow")

\* an agent's Limit order that arrived and rested has been filled whole as
\* the passive side of a trade and has left the set, the Cancel of an agent
\* for an order of its own that never traded has been processed, and
\* another order of an agent rests
C30_Witness ==
    /\ pc = "running"
    /\ \E agent \in {"fast", "slow"} :
           \E id \in ArrivedOf(agent) \cap Passive :
               /\ runner.book.ord[id].Type = LimitOrder
               /\ runner.book.ord[id].RemainingQty = 0
               /\ id \notin runner.book.orderIndex
    /\ \E agent \in {"fast", "slow"} :
           \E c \in ArrivedOf(agent) :
               /\ runner.book.ord[c].Type = CancelOrder
               /\ runner.book.ord[c].CancelID \in ArrivedOf(agent)
               /\ runner.book.ord[c].CancelID \notin Passive
    /\ RestingOf("fast") \cup RestingOf("slow") # {}

\* the best prices the generator seeds the book with
InitialBestBid ==
    cfg.Scenario.InitialMidPrice - cfg.Scenario.InitialSpread \div 2
InitialBestAsk ==
    cfg.Scenario.InitialMidPrice + cfg.Scenario.InitialSpread \div 2

\* C31: with half the initial spread at least 1 and a tick of 0 or more,
\* every resting bid is priced at or below the initial best bid and every
\* resting ask at or above the initial best ask; so no Limit order matches
\* on arrival and the aggressor of every trade is a Market order.
C31_LimitsNeverCross ==
    (/\ pc \in {"running", "closed"}
     /\ cfg.Scenario.InitialSpread \div 2 >= 1
     /\ cfg.Scenario.PriceTickSize >= 0) =>
        /\ \A i \in 1..Len(runner.book.Bids) :
               runner.book.Bids[i].Price <= InitialBestBid
        /\ \A i \in 1..Len(runner.book.Asks) :
               runner.book.Asks[i].Price >= InitialBestAsk
        /\ \A k \in 1..Len(runner.trades) :
               runner.book.ord[runner.trades[k].AggressorOrderID].Type
                   = MarketOrder

\* a Limit order of an agent and one of the background flow have arrived
\* after the initial book, and there have been trades
C31_Witness ==
    /\ pc = "running"
    /\ Len(runner.trades) > 0
    /\ \E i \in 1..Len(hist.processed) :
           /\ runner.book.ord[hist.processed[i]].TraderID \in {"fast", "slow"}
           /\ runner.book.ord[hist.processed[i]].Type = LimitOrder
    /\ \E i \in 1..Len(hist.processed) :
           /\ runner.book.ord[hist.processed[i]].TraderID = "background"
           /\ runner.book.ord[hist.processed[i]].Type = LimitOrder
           /\ hist.processed[i] > 100000 + 2 * Levels * Depth

\* the quantity of the first k trades of the run that the order took part in
RECURSIVE TradedQty(_, _)
TradedQty(id, k) ==
    IF k = 0 THEN 0
    ELSE (IF id \in {runner.trades[k].BuyOrderID, runner.trades[k].SellOrderID}
          THEN runner.trades[k].Qty ELSE 0)
         + TradedQty(id, k - 1)

\* the orders the matcher has been given
Processed == {hist.processed[i] : i \in 1..Len(hist.processed)}

\* the orders a processed Cancel has targeted
CancelTargets ==
    {runner.book.ord[c].CancelID :
        c \in {d \in Processed : runner.book.ord[d].Type = CancelOrder}}

\* C32: quantities are conserved: every order has 0 <= remaining <= its
\* original quantity, the trades it took part in never sum to more than its
\* original quantity, and an order that has reached the matcher and was not
\* cancelled, a resting one above all, has remaining = original quantity
\* minus that sum, both sides of a trade having lost the trade's quantity.
C32_QuantityConserved ==
    pc \in {"running", "closed"} =>
        \A id \in DOMAIN runner.book.ord :
            LET o == runner.book.ord[id]
                traded == TradedQty(id, Len(runner.trades))
            IN  /\ 0 <= o.RemainingQty
                /\ o.RemainingQty <= o.Qty
                /\ traded <= o.Qty
                /\ id \in runner.book.orderIndex =>
                       o.RemainingQty = o.Qty - traded
                /\ (id \in Processed \ CancelTargets /\ o.Type # CancelOrder) =>
                       o.RemainingQty = o.Qty - traded
                /\ id \notin Processed => traded = 0

\* a resting order has been filled in part and rests with what is left, and
\* a Market order has been filled by two resting orders
C32_Witness ==
    /\ pc = "running"
    /\ \E id \in runner.book.orderIndex :
           /\ runner.book.ord[id].RemainingQty < runner.book.ord[id].Qty
           /\ runner.book.ord[id].RemainingQty > 0
    /\ \E k \in 2..Len(runner.trades) :
           /\ runner.trades[k].AggressorOrderID
                  = runner.trades[k - 1].AggressorOrderID
           /\ runner.book.ord[runner.trades[k].AggressorOrderID].RemainingQty = 0

\* C33: no trade of a run has agent orders on both sides: the buy trader
\* and the sell trader are never both among fast and slow.
C33_AgentsNeverCross ==
    \A k \in 1..Len(runner.trades) :
        ~ /\ runner.trades[k].BuyTrader \in {"fast", "slow"}
          /\ runner.trades[k].SellTrader \in {"fast", "slow"}

\* C34: the order of an OrderAccepted event carries the sequence number the
\* loop gave the event: every order that reached the matcher, and every
\* order logged, has a seq_no that is not zero and is that of its event.
C34_OrderSeqNo ==
    /\ \A id \in Processed : runner.book.ord[id].SeqNo # 0
    /\ \A j \in 1..Len(runner.log) :
           (runner.log[j].type = EventOrderAccepted
               /\ runner.log[j].order # Nil) =>
               /\ runner.log[j].order.SeqNo # 0
               /\ runner.log[j].order.SeqNo = runner.log[j].seq_no

\* the ORDER_ACCEPTED records of the log before record i
AcceptedBefore(i) ==
    {j \in 1..(i - 1) : runner.log[j].type = EventOrderAccepted}

\* the last ORDER_ACCEPTED record before record i
LastAccepted(i) ==
    CHOOSE j \in AcceptedBefore(i) : \A m \in AcceptedBefore(i) : m <= j

\* C38: every TRADE_EXECUTED record of the event log comes after an
\* ORDER_ACCEPTED record of its aggressor order, which is the last
\* ORDER_ACCEPTED record before it, and after an earlier ORDER_ACCEPTED
\* record of its passive order.
C38_TradeAfterAccepted ==
    \A i \in 1..Len(runner.log) :
        runner.log[i].type = EventTradeExecuted =>
            /\ AcceptedBefore(i) # {}
            /\ runner.log[LastAccepted(i)].order.ID
                   = runner.log[i].trade.AggressorOrderID
            /\ \E j \in AcceptedBefore(i) :
                   /\ j < LastAccepted(i)
                   /\ runner.log[j].order.ID = runner.log[i].trade.PassiveOrderID

\* the log of a finished run holds two trade records in a row: the second
\* does not directly follow the ORDER_ACCEPTED record of its aggressor
C38_Witness ==
    /\ pc = "closed"
    /\ \E i \in 2..Len(runner.log) :
           /\ runner.log[i].type = EventTradeExecuted
           /\ runner.log[i - 1].type = EventTradeExecuted
           /\ AcceptedBefore(i) # {}

\* the step dispatches an event of one of the types
Dispatches(types) ==
    /\ Len(hist'.dispatched) = Len(hist.dispatched) + 1
    /\ hist'.dispatched[Len(hist'.dispatched)].Type \in types

\* C39: when a Signal or a ReQuote event is dispatched, the BBO the runner
\* has kept is the BBO of the book, and the mid price stamped on a Signal
\* is the mid price of the book; the book's levels and resting quantities
\* change only in the dispatch of an order event, which leaves the kept
\* BBO equal to the BBO of the book.
C39_CachedBBOIsCurrent ==
    [][/\ Dispatches({EventSignal, EventReQuote}) =>
              /\ runner.currentBBO = BBO(runner.book)
              /\ runner'.currentBBO = runner.currentBBO
       /\ (Dispatches({EventSignal}) /\ Len(runner'.log) > Len(runner.log)) =>
              runner'.log[Len(runner'.log)].signal.MidPrice
                  = BBO(runner.book).MidPrice
       /\ ~Dispatches({EventOrderAccepted}) =>
              /\ runner'.book.Bids = runner.book.Bids
              /\ runner'.book.Asks = runner.book.Asks
              /\ BBO(runner'.book) = BBO(runner.book)
       /\ (Dispatches({EventOrderAccepted}) /\ ~runner'.panicked) =>
              runner'.currentBBO = BBO(runner'.book)]_vars

\* a Signal has been dispatched after trades have changed the book: the
\* kept BBO is no longer the BBO of the initial book
C39_Witness ==
    /\ pc = "running"
    /\ Len(hist.dispatched) > 0
    /\ LastDispatched.Type = EventSignal
    /\ Len(runner.trades) > 0
    /\ runner.log[Len(runner.log)].type = EventSignal
    /\ runner.log[Len(runner.log)].signal.MidPrice = runner.currentBBO.MidPrice
    /\ \E i \in 1..Len(runner.log) :
           /\ runner.log[i].type = EventBBOUpdate
           /\ runner.log[i].bbo # runner.currentBBO

LateDurationMs == 450      \* cfg.Duration, not a multiple of the intervals

\* the calm scenario with a duration that ends less than the slow agent's
\* latency after the last Signal and ReQuote events
LateConfigs ==
    {[Calm(p) EXCEPT !.Duration = MsToNs(LateDurationMs)] :
        p \in {q \in Profiles : q.fast.BaseLatencyMs = 1}}

LateInit ==
    /\ pc = "new"
    /\ cfg \in LateConfigs
    /\ gen \in GenStreams
    /\ loop = NewEventLoop
    /\ \E fs \in FastStreams(cfg), ss \in SlowStreams(cfg) :
           runner = NewRunner(cfg, fs, ss)
    /\ hist = NoHist
    /\ book = New /\ nextID = 1 /\ last = NoCall

SpecLate == LateInit /\ [][Next]_vars

\* the places of the SIM_END records in the log
SimEnds == {i \in 1..Len(runner.log) : runner.log[i].type = EventSimEnd}

\* C40: SIM_START is the first record of the event log and SIM_END is the
\* last one: after the SimEnd event has been dispatched no order reaches
\* the matcher and no record is written.
C40_SimEndIsLast ==
    /\ Len(runner.log) > 0 => runner.log[1].type = EventSimStart
    /\ \A i \in SimEnds : i = Len(runner.log)
    /\ pc = "closed" => SimEnds # {}
    /\ \A k \in 1..Len(hist.dispatched) :
           hist.dispatched[k].Type = EventSimEnd =>
               \A m \in (k + 1)..Len(hist.dispatched) :
                   hist.dispatched[m].Type # EventOrderAccepted

\* SIM_START is the first record of the log and nowhere else, and the log
\* of a finished run holds one SIM_END record, stamped with the duration
StartFirstOneEnd ==
    /\ Len(runner.log) > 0 =>
           /\ runner.log[1].type = EventSimStart
           /\ \A i \in 2..Len(runner.log) : runner.log[i].type # EventSimStart
    /\ Cardinality(SimEnds) <= 1
    /\ \A i \in SimEnds : runner.log[i].timestamp = cfg.Duration
    /\ pc = "closed" => Cardinality(SimEnds) = 1

\* an order has been handled after the SimEnd event: its records follow
\* SIM_END in the log
LateOrder ==
    /\ pc = "closed"
    /\ \E i \in SimEnds :
           \E j \in (i + 1)..Len(runner.log) :
               /\ runner.log[j].type = EventOrderAccepted
               /\ runner.log[j].timestamp >= cfg.Duration

-----------------------------------------------------------------------------
(* EventLoop.RunUntil, on a loop whose handler is any function that        *)
(* returns events for the time of the event it handles or later, as the    *)
(* handlers of this repository do.                                         *)

MaxTime == 3          \* the timestamps scheduled before the call are 1..MaxTime
MaxScheduled == 3     \* events scheduled before the call
MaxEvents == 5        \* events scheduled in all

\* what a handler can return: the delays of the events, after the event handled
Spawns == {<<>>, <<0>>, <<1>>, <<0, 2>>}

\* the events a handler returns for the event and the delays
spawn(event, delays) ==
    [i \in 1..Len(delays) |->
        Event(event.Timestamp + delays[i], EventSignal, "", 0, Nil)]

UntilInit ==
    /\ pc = "scheduling"
    /\ loop = NewEventLoop
    /\ cfg \in {[maxTime |-> t, scheduled |-> 0] : t \in 1..MaxTime}
    /\ hist = NoHist
    /\ last = [kind |-> "none", result |-> FALSE]
    /\ gen = <<>> /\ runner = Idle /\ book = New /\ nextID = 1

\* a call of Schedule before RunUntil
ScheduleEvent ==
    /\ pc = "scheduling"
    /\ loop.seqNo < MaxScheduled
    /\ \E t \in 1..MaxTime :
           loop' = Schedule(loop, Event(t, EventSignal, "", 0, Nil))
    /\ UNCHANGED <<pc, cfg, hist, last, gen, runner, book, nextID>>

\* the call RunUntil(cfg.maxTime)
CallRunUntil ==
    /\ pc = "scheduling"
    /\ pc' = "until"
    /\ cfg' = [cfg EXCEPT !.scheduled = loop.seqNo]
    /\ UNCHANGED <<loop, hist, last, gen, runner, book, nextID>>

\* a faulty bound: RunUntil stops at maxTime itself
beyondOrAt(next, maxTime) == next.Timestamp >= maxTime

\* RunUntil: `next.Timestamp > maxTime`, next being the head of the queue
beyond(next, maxTime) == next.Timestamp > maxTime

\* RunUntil, one iteration that dispatches: pop, advance the clock, call the
\* handler, schedule what it returns
UntilDispatch ==
    /\ pc = "until"
    /\ Len(loop.queue) > 0
    /\ ~beyond(loop.queue[1], cfg.maxTime)
    /\ LET handled(event, el, newEvents) ==
               /\ loop' = ScheduleAll(el, newEvents)
               /\ hist' = Recorded(hist, loop.queue, event, newEvents)
           popped(p) ==
               \E delays \in Spawns :
                   /\ loop.seqNo + Len(delays) <= MaxEvents
                   /\ handled(p.item,
                              [loop EXCEPT !.queue = p.queue,
                                           !.CurrentTime = p.item.Timestamp,
                                           !.EventsProcessed = @ + 1],
                              spawn(p.item, delays))
       IN  popped(heapPop(loop.queue))
    /\ UNCHANGED <<pc, cfg, last, gen, runner, book, nextID>>

\* RunUntil returns: true at a head beyond maxTime, false on an empty queue
UntilReturn ==
    /\ pc = "until"
    /\ \/ Len(loop.queue) = 0
       \/ Len(loop.queue) > 0 /\ beyond(loop.queue[1], cfg.maxTime)
    /\ pc' = "returned"
    /\ last' = [kind |-> "RunUntil", result |-> Len(loop.queue) > 0]
    /\ UNCHANGED <<cfg, loop, hist, gen, runner, book, nextID>>

UntilNext == ScheduleEvent \/ CallRunUntil \/ UntilDispatch \/ UntilReturn

SpecUntil == UntilInit /\ [][UntilNext]_vars

\* C16: RunUntil(maxTime) dispatches, smallest (timestamp, seq) first, the
\* events of timestamp up to maxTime, those the handler schedules meanwhile
\* included, leaves every later event pending, loses none, and returns true
\* exactly when an event is still pending.
C16_RunUntil ==
    /\ hist.dispatched # <<>> =>
           \A k \in hist.pending : KeyLE(Key(LastDispatched), k)
    /\ \A i \in 1..Len(hist.dispatched) :
           hist.dispatched[i].Timestamp <= cfg.maxTime
    /\ \A i \in 1..(Len(hist.dispatched) - 1) :
           /\ KeyLE(Key(hist.dispatched[i]), Key(hist.dispatched[i + 1]))
           /\ Key(hist.dispatched[i]) # Key(hist.dispatched[i + 1])
    /\ SeqNosInUse = 1..loop.seqNo
    /\ Len(loop.queue) + Len(hist.dispatched) = loop.seqNo
    /\ pc = "returned" =>
           /\ \A i \in 1..Len(loop.queue) :
                  loop.queue[i].Timestamp > cfg.maxTime
           /\ last.result <=> Len(loop.queue) > 0
           /\ last.result <=> Pending(loop) > 0

\* RunUntil returned true after it had dispatched an event that the
\* handler scheduled during the call, an event of that kind left pending
C16_Witness ==
    /\ pc = "returned"
    /\ last.result
    /\ \E i \in 1..Len(hist.dispatched) :
           hist.dispatched[i].SeqNo > cfg.scheduled
    /\ \E i \in 1..Len(loop.queue) : loop.queue[i].SeqNo > cfg.scheduled
    /\ \E i \in 1..Len(hist.dispatched) :
           hist.dispatched[i].Timestamp = cfg.maxTime

-----------------------------------------------------------------------------
(* latency.Model on its own: two models built by NewModel with the same    *)
(* base, jitter and seed, and Apply called on both with the same decision  *)
(* times.                                                                   *)

MaxCalls == 3

\* base latencies and jitters in ns: none, below and above the draw's
\* resolution
LatencyBases == {0, MsToNs(1), MsToNs(50)}
LatencyJitters == {0, 7, MsToNs(10)}
LatencySeeds == [1..2 -> {0, 50, 99}]
DecisionTimes == {0, 1, MsToNs(5)}

LatencyInit ==
    /\ pc = "latency"
    /\ cfg \in [BaseNs : LatencyBases, JitterNs : LatencyJitters,
                 seed : LatencySeeds]
    /\ runner = [a |-> NewModel(cfg.BaseNs, cfg.JitterNs, cfg.seed),
                 b |-> NewModel(cfg.BaseNs, cfg.JitterNs, cfg.seed)]
    /\ last = [kind |-> "none", calls |-> 0]
    /\ loop = NewEventLoop /\ hist = NoHist /\ gen = <<>>
    /\ book = New /\ nextID = 1

\* one call of Apply on each model, with the same decision time
ApplyBoth ==
    /\ pc = "latency"
    /\ last.calls < MaxCalls
    /\ \E t \in DecisionTimes :
           LET applied(ra, rb) ==
                   /\ runner' = [a |-> ra.m, b |-> rb.m]
                   /\ last' = [kind |-> "Apply", calls |-> last.calls + 1,
                               decisionTime |-> t, before |-> runner.a.at,
                               a |-> ra.arrival, b |-> rb.arrival]
           IN  applied(Apply(runner.a, t), Apply(runner.b, t))
    /\ UNCHANGED <<pc, cfg, gen, loop, hist, book, nextID>>

LatencyNext == ApplyBoth

SpecLatency == LatencyInit /\ [][LatencyNext]_vars

\* C19: Apply(t) - t lies in [base, base + jitter) when the jitter is
\* positive; with no jitter it is the base exactly and the generator is not
\* drawn from; two models with the same base, jitter and seed return the
\* same values for the same calls.
C19_LatencyRange ==
    last.kind = "Apply" =>
        /\ cfg.JitterNs > 0 =>
               /\ last.a - last.decisionTime >= cfg.BaseNs
               /\ last.a - last.decisionTime < cfg.BaseNs + cfg.JitterNs
        /\ cfg.JitterNs = 0 =>
               /\ last.a - last.decisionTime = cfg.BaseNs
               /\ runner.a.at = last.before
        /\ last.a = last.b
        /\ runner.a = runner.b

\* a second call on a model with jitter, which came out above the base
C19_Witness ==
    /\ last.kind = "Apply" /\ last.calls >= 2
    /\ cfg.JitterNs > 0
    /\ last.a - last.decisionTime > cfg.BaseNs
    /\ runner.a.at # last.before

-----------------------------------------------------------------------------
(* metrics.Collector.  The maps orderTimes and filledOrders are kept as    *)
(* their key sets (filledOrders holds only true), the slices fills,        *)
(* bboHistory and tradeHistory as their lengths: the fill rate reads the   *)
(* keys and nothing of the values.  FillRate, a float64 quotient of two    *)
(* ints, is kept as the pair of them, 0 being 0/1.                         *)

\* NewCollector
NewCollector == [traderMetrics |-> [t \in {} |-> Nil], bboHistory |-> 0,
                 tradeHistory |-> 0]

newAccum ==
    [ordersSent |-> 0, limitOrders |-> 0, marketOrders |-> 0,
     cancelsSent |-> 0, orderTimes |-> {}, filledOrders |-> {},
     cancelTargets |-> <<>>, fills |-> 0]

\* Collector.getAccum: the collector with an accumulator for the trader
getAccum(c, traderID) ==
    IF traderID \in DOMAIN c.traderMetrics THEN c
    ELSE [c EXCEPT !.traderMetrics =
              [t \in DOMAIN c.traderMetrics \cup {traderID} |->
                   IF t = traderID THEN newAccum ELSE c.traderMetrics[t]]]

\* Collector.processOrder
processOrder(c, order) ==
    IF order.TraderID = "background" THEN c
    ELSE [getAccum(c, order.TraderID) EXCEPT
              !.traderMetrics[order.TraderID] =
                  IF order.Type = LimitOrder
                  THEN [@ EXCEPT !.ordersSent = @ + 1, !.limitOrders = @ + 1,
                                 !.orderTimes = @ \cup {order.ID}]
                  ELSE IF order.Type = MarketOrder
                  THEN [@ EXCEPT !.ordersSent = @ + 1, !.marketOrders = @ + 1,
                                 !.orderTimes = @ \cup {order.ID}]
                  ELSE IF order.Type = CancelOrder
                  THEN [@ EXCEPT !.ordersSent = @ + 1, !.cancelsSent = @ + 1]
                  ELSE [@ EXCEPT !.ordersSent = @ + 1]]

\* Collector.processCancel
collectorProcessCancel(c, order) ==
    IF order.TraderID = "background" THEN c
    ELSE [getAccum(c, order.TraderID) EXCEPT
              !.traderMetrics[order.TraderID].cancelTargets =
                  IF order.CancelID > 0 THEN Append(@, order.CancelID) ELSE @]

\* Collector.recordFill
recordFill(c, traderID, orderID) ==
    IF traderID = "background" THEN c
    ELSE [getAccum(c, traderID) EXCEPT
              !.traderMetrics[traderID].filledOrders = @ \cup {orderID},
              !.traderMetrics[traderID].fills = @ + 1]

\* Collector.processTrade: a fill for the buyer, then one for the seller
processTrade(c, trade) ==
    recordFill(recordFill([c EXCEPT !.tradeHistory = @ + 1],
                          trade.BuyTrader, trade.BuyOrderID),
               trade.SellTrader, trade.SellOrderID)

\* Collector.ProcessEvent
ProcessEvent(c, event) ==
    IF event.Type = EventOrderAccepted /\ event.Order # Nil
    THEN processOrder(c, event.Order)
    ELSE IF event.Type = EventTradeExecuted /\ event.Trade # Nil
    THEN processTrade(c, event.Trade)
    ELSE IF event.Type = EventOrderCanceled /\ event.Order # Nil
    THEN collectorProcessCancel(c, event.Order)
    ELSE IF event.Type = EventBBOUpdate /\ event.BBO # Nil
    THEN [c EXCEPT !.bboHistory = @ + 1]
    ELSE c

\* a faulty numerator: the fills of the trader, not its filled orders
totalFills(a) == a.fills

\* Compute: the executable orders with at least one fill
filledExecutableOrders(a) ==
    Cardinality({orderID \in a.orderTimes : orderID \in a.filledOrders})

\* Compute, the counts and the fill rate of one trader
traderMetricsOf(a) ==
    [OrdersSent |-> a.ordersSent, LimitOrders |-> a.limitOrders,
     MarketOrders |-> a.marketOrders, CancelsSent |-> a.cancelsSent,
     TotalFills |-> a.fills,
     FillRate |-> IF Cardinality(a.orderTimes) > 0
                  THEN [num |-> filledExecutableOrders(a),
                        den |-> Cardinality(a.orderTimes)]
                  ELSE [num |-> 0, den |-> 1]]

\* Collector.Compute
Compute(c) ==
    [t \in DOMAIN c.traderMetrics |-> traderMetricsOf(c.traderMetrics[t])]

-----------------------------------------------------------------------------
(* The collector fed any stream of events, as ComputeFromEvents feeds it,  *)
(* and Compute called at its end.                                          *)

MaxStream == 3

StreamOrderIDs == {1, 2}

StreamTraders == {"fast", "slow", "background"}

StreamOrders ==
    [ID : StreamOrderIDs, TraderID : StreamTraders,
     Type : {LimitOrder, MarketOrder, CancelOrder}, CancelID : {0}]

StreamTrades ==
    [BuyTrader : StreamTraders, BuyOrderID : StreamOrderIDs,
     SellTrader : StreamTraders, SellOrderID : StreamOrderIDs]

\* the events of a stream: orders, trades, a cancel acknowledgement, a BBO
\* update and an event without its payload
StreamEvents ==
    {[Type |-> EventOrderAccepted, Order |-> o, Trade |-> Nil, BBO |-> Nil] :
        o \in StreamOrders}
    \cup {[Type |-> EventTradeExecuted, Order |-> Nil, Trade |-> t,
           BBO |-> Nil] : t \in StreamTrades}
    \cup {[Type |-> EventOrderCanceled,
           Order |-> [ID |-> 1, TraderID |-> "fast", Type |-> LimitOrder,
                      CancelID |-> 1],
           Trade |-> Nil, BBO |-> Nil],
          [Type |-> EventBBOUpdate, Order |-> Nil, Trade |-> Nil,
           BBO |-> [MidPrice |-> 1000000]],
          [Type |-> EventOrderAccepted, Order |-> Nil, Trade |-> Nil,
           BBO |-> Nil]}

CollectorInit ==
    /\ pc = "collecting"
    /\ runner = NewCollector
    /\ hist = [events |-> {}, n |-> 0]
    /\ last = [kind |-> "none"]
    /\ cfg = Nil /\ gen = <<>> /\ loop = NewEventLoop
    /\ book = New /\ nextID = 1

\* ComputeFromEvents: the next event of the stream goes to ProcessEvent
Collect ==
    /\ pc = "collecting"
    /\ hist.n < MaxStream
    /\ \E event \in StreamEvents :
           /\ runner' = ProcessEvent(runner, event)
           /\ hist' = [events |-> hist.events \cup {event}, n |-> hist.n + 1]
    /\ UNCHANGED <<pc, cfg, gen, loop, last, book, nextID>>

\* ComputeFromEvents: Compute at the end of the stream
CallCompute ==
    /\ pc = "collecting"
    /\ pc' = "computed"
    /\ last' = [kind |-> "Compute", metrics |-> Compute(runner)]
    /\ UNCHANGED <<cfg, gen, loop, runner, hist, book, nextID>>

CollectorNext == Collect \/ CallCompute

SpecCollector == CollectorInit /\ [][CollectorNext]_vars

\* the trader's executable orders accepted in the stream, by id
AcceptedExecutable(t) ==
    {e.Order.ID : e \in {x \in hist.events :
                             /\ x.Type = EventOrderAccepted /\ x.Order # Nil
                             /\ x.Order.TraderID = t
                             /\ x.Order.Type \in {LimitOrder, MarketOrder}}}

\* the trader's orders that a trade of the stream filled, by id
FilledInStream(t) ==
    {e.Trade.BuyOrderID : e \in {x \in hist.events :
                                     /\ x.Type = EventTradeExecuted
                                     /\ x.Trade.BuyTrader = t}}
    \cup {e.Trade.SellOrderID : e \in {x \in hist.events :
                                           /\ x.Type = EventTradeExecuted
                                           /\ x.Trade.SellTrader = t}}

\* C20: for every trader but the background, the fill rate is within 0..1:
\* its numerator counts once each accepted Limit or Market order of the
\* trader with at least one fill, whatever the number of its fills, and its
\* denominator is the number of the trader's accepted Limit and Market
\* orders.
C20_FillRate ==
    pc = "computed" =>
        /\ "background" \notin DOMAIN last.metrics
        /\ \A t \in StreamTraders \ {"background"} :
               AcceptedExecutable(t) # {} => t \in DOMAIN last.metrics
        /\ \A t \in DOMAIN last.metrics :
               /\ last.metrics[t].FillRate.num >= 0
               /\ last.metrics[t].FillRate.den > 0
               /\ last.metrics[t].FillRate.num <= last.metrics[t].FillRate.den
               /\ AcceptedExecutable(t) = {}
                      => last.metrics[t].FillRate.num = 0
               /\ AcceptedExecutable(t) # {} =>
                      /\ last.metrics[t].FillRate.num =
                             Cardinality(AcceptedExecutable(t)
                                         \cap FilledInStream(t))
                      /\ last.metrics[t].FillRate.den =
                             Cardinality(AcceptedExecutable(t))

\* a trader with two accepted orders, one of them filled twice and the
\* other not at all
C20_Witness ==
    /\ pc = "computed"
    /\ \E t \in DOMAIN last.metrics :
           /\ last.metrics[t].FillRate = [num |-> 1, den |-> 2]
           /\ last.metrics[t].TotalFills >= 2

-----------------------------------------------------------------------------
(* The event log as a file: eventlog.Writer writes one JSON object per     *)
(* line, eventlog.Reader parses the lines back.  A JSON object is the      *)
(* function from its keys to its values; a key tagged omitempty is absent  *)
(* when its value is the zero value.                                       *)

\* no key
NoKey == [k \in {} |-> 0]

\* `json:",omitempty"`
omitempty(isZero, field) == IF isZero THEN NoKey ELSE field

\* the value of a key, the zero value if the key is absent
keyOr(object, key, zero) == IF key \in DOMAIN object THEN object[key] ELSE zero

\* Side.String, which Side.MarshalJSON quotes
SideString(s) == IF s = Buy THEN "BUY" ELSE "SELL"

\* Side.UnmarshalJSON
UnmarshalSide(str) ==
    CASE str \in {"BUY", "1"} -> [err |-> FALSE, v |-> Buy]
      [] str \in {"SELL", "-1"} -> [err |-> FALSE, v |-> Sell]
      [] OTHER -> [err |-> TRUE, v |-> 0]

\* OrderType.String
OrderTypeString(t) ==
    CASE t = LimitOrder -> "LIMIT"
      [] t = MarketOrder -> "MARKET"
      [] t = CancelOrder -> "CANCEL"
      [] OTHER -> "UNKNOWN"

\* OrderType.UnmarshalJSON
UnmarshalOrderType(str) ==
    CASE str \in {"LIMIT", "0"} -> [err |-> FALSE, v |-> LimitOrder]
      [] str \in {"MARKET", "1"} -> [err |-> FALSE, v |-> MarketOrder]
      [] str \in {"CANCEL", "2"} -> [err |-> FALSE, v |-> CancelOrder]
      [] OTHER -> [err |-> TRUE, v |-> 0]

\* EventType.UnmarshalJSON; the model keeps an EventType as its name
EventTypeNames ==
    {EventOrderAccepted, EventOrderCanceled, EventTradeExecuted,
     EventBBOUpdate, EventSignal, EventReQuote, EventSimStart, EventSimEnd}
UnmarshalEventType(str) ==
    IF str \in EventTypeNames THEN [err |-> FALSE, v |-> str]
    ELSE [err |-> TRUE, v |-> EventOrderAccepted]

\* json.Marshal of a domain.Order
MarshalOrder(o) ==
    [id |-> o.ID, trader_id |-> o.TraderID, side |-> SideString(o.Side),
     type |-> OrderTypeString(o.Type), price |-> o.Price, qty |-> o.Qty,
     remaining_qty |-> o.RemainingQty, decision_time |-> o.DecisionTime,
     arrival_time |-> o.ArrivalTime, seq_no |-> o.SeqNo]
    @@ omitempty(o.CancelID = 0, [cancel_id |-> o.CancelID])
    @@ omitempty(o.QueuePos = 0, [queue_pos |-> o.QueuePos])

\* json.Unmarshal into a domain.Order
UnmarshalOrder(j) ==
    [ID |-> j.id, TraderID |-> j.trader_id, Side |-> UnmarshalSide(j.side).v,
     Type |-> UnmarshalOrderType(j.type).v, Price |-> j.price, Qty |-> j.qty,
     RemainingQty |-> j.remaining_qty, DecisionTime |-> j.decision_time,
     ArrivalTime |-> j.arrival_time, SeqNo |-> j.seq_no,
     CancelID |-> keyOr(j, "cancel_id", 0),
     QueuePos |-> keyOr(j, "queue_pos", 0)]

\* json.Marshal of a domain.Trade
MarshalTrade(t) ==
    [id |-> t.ID, buy_order_id |-> t.BuyOrderID,
     sell_order_id |-> t.SellOrderID, buy_trader |-> t.BuyTrader,
     sell_trader |-> t.SellTrader, price |-> t.Price, qty |-> t.Qty,
     timestamp |-> t.Timestamp]
    @@ omitempty(t.PassiveOrderID = 0, [passive_order_id |-> t.PassiveOrderID])
    @@ omitempty(t.AggressorOrderID = 0,
                 [aggressor_order_id |-> t.AggressorOrderID])
    @@ omitempty(t.RestingQueuePos = 0,
                 [resting_queue_pos |-> t.RestingQueuePos])

\* json.Unmarshal into a domain.Trade
UnmarshalTrade(j) ==
    [ID |-> j.id, Price |-> j.price, Qty |-> j.qty, Timestamp |-> j.timestamp,
     PassiveOrderID |-> keyOr(j, "passive_order_id", 0),
     AggressorOrderID |-> keyOr(j, "aggressor_order_id", 0),
     RestingQueuePos |-> keyOr(j, "resting_queue_pos", 0),
     BuyOrderID |-> j.buy_order_id, SellOrderID |-> j.sell_order_id,
     BuyTrader |-> j.buy_trader, SellTrader |-> j.sell_trader]

\* json.Marshal of a domain.BBO and of a domain.Signal
MarshalBBO(b) ==
    [bid_price |-> b.BidPrice, bid_qty |-> b.BidQty, ask_price |-> b.AskPrice,
     ask_qty |-> b.AskQty, mid_price |-> b.MidPrice]
UnmarshalBBO(j) ==
    [BidPrice |-> j.bid_price, BidQty |-> j.bid_qty, AskPrice |-> j.ask_price,
     AskQty |-> j.ask_qty, MidPrice |-> j.mid_price]
MarshalSignal(g) == [value |-> g.Value, mid_price |-> g.MidPrice]
UnmarshalSignal(j) == [Value |-> j.value, MidPrice |-> j.mid_price]

\* Writer.Write: json.Marshal of the event, one line of the file
Write(e) ==
    [seq_no |-> e.seq_no, timestamp |-> e.timestamp, type |-> e.type]
    @@ omitempty(e.trader_id = "", [trader_id |-> e.trader_id])
    @@ omitempty(e.order = Nil, [order |-> MarshalOrder(e.order)])
    @@ omitempty(e.trade = Nil, [trade |-> MarshalTrade(e.trade)])
    @@ omitempty(e.bbo = Nil, [bbo |-> MarshalBBO(e.bbo)])
    @@ omitempty(e.signal = Nil, [signal |-> MarshalSignal(e.signal)])

\* json.Unmarshal fails on the line
unmarshalFails(line) ==
    \/ UnmarshalEventType(line.type).err
    \/ /\ "order" \in DOMAIN line
       /\ (UnmarshalSide(line.order.side).err
             \/ UnmarshalOrderType(line.order.type).err)

\* Reader.Next on a line: the event read
ReaderNext(line) ==
    [seq_no |-> line.seq_no, timestamp |-> line.timestamp,
     type |-> UnmarshalEventType(line.type).v,
     trader_id |-> keyOr(line, "trader_id", ""),
     order |-> IF "order" \in DOMAIN line THEN UnmarshalOrder(line.order)
               ELSE Nil,
     trade |-> IF "trade" \in DOMAIN line THEN UnmarshalTrade(line.trade)
               ELSE Nil,
     bbo |-> IF "bbo" \in DOMAIN line THEN UnmarshalBBO(line.bbo) ELSE Nil,
     signal |-> IF "signal" \in DOMAIN line THEN UnmarshalSignal(line.signal)
                ELSE Nil]

\* Reader.ReadAll: the events up to the end of the file or the first error
RECURSIVE ReadAll(_)
ReadAll(lines) ==
    IF lines = <<>> \/ unmarshalFails(Head(lines)) THEN <<>>
    ELSE <<ReaderNext(Head(lines))>> \o ReadAll(Tail(lines))

\* the file of the run's log
LogFile == [i \in 1..Len(runner.log) |-> Write(runner.log[i])]

\* C21: the log read back is the sequence of events written, equal in
\* length, in order and in every field of every event.
C21_RoundTrip == ReadAll(LogFile) = runner.log

-----------------------------------------------------------------------------
(* The commands that start a run: `run` looks the scenario's name up with  *)
(* GetConfig, `replay` decodes the configuration of an earlier run from    *)
(* its config.json and runs it again.  The thin and spike scenarios are    *)
(* left out: the names are calm and one that is no scenario's.             *)

ScenarioNames == {"calm", "storm"}

\* scenario.GetConfig
GetConfig(name) ==
    IF name = "calm"
    THEN Calm(CHOOSE p \in Profiles :
                  p.fast.BaseLatencyMs = 1 /\ p.fast.JitterMs = 0)
    ELSE Nil

\* sim.NewRunner and its event loop, for the configuration c
created(c) ==
    /\ cfg' = c
    /\ loop' = NewEventLoop
    /\ \E fs \in FastStreams(c), ss \in SlowStreams(c) :
           runner' = NewRunner(c, fs, ss)
    /\ pc' = "new"

CmdInit ==
    /\ pc = "cmd"
    /\ cfg \in [Name : ScenarioNames]
    /\ gen \in GenStreams
    /\ loop = Idle /\ runner = Idle
    /\ hist = NoHist
    /\ book = New /\ nextID = 1 /\ last = NoCall

\* cmdRun: exits on a name GetConfig does not know, before NewRunner
CmdRun ==
    /\ pc = "cmd"
    /\ IF GetConfig(cfg.Name) = Nil
       THEN pc' = "exited" /\ UNCHANGED <<cfg, loop, runner>>
       ELSE created(GetConfig(cfg.Name))
    /\ UNCHANGED <<gen, hist, bookVars>>

\* cmdReplay: the configuration is the one decoded from config.json,
\* whatever its name
CmdReplay ==
    /\ pc = "cmd"
    /\ \E p \in Profiles : created([Calm(p) EXCEPT !.Name = cfg.Name])
    /\ UNCHANGED <<gen, hist, bookVars>>

CmdNext == CmdRun \/ CmdReplay \/ Next

SpecCmd == CmdInit /\ [][CmdNext]_vars

\* C24: a run whose configuration names no scenario fails before it starts:
\* no event is generated or dispatched and nothing is written to the log.
C24_UnknownFails ==
    cfg.Name \notin {"calm", "thin", "spike"} =>
        \/ pc \in {"cmd", "exited"}
        \/ /\ runner.log = <<>>
           /\ loop.seqNo = 0
           /\ hist.dispatched = <<>>

-----------------------------------------------------------------------------
(* Strategy.Decide on its own: an agent with any active orders, any signal *)
(* and BBO, at a time around the cancel timeout of the orders.             *)

MaxActive == 3

\* an active order of the agent: its side and the time it was decided at,
\* the timeout or a nanosecond less before the earlier of the two calls
ActiveShapes == [Side : {Buy, Sell}, DecisionTime : {0, 1}]
DecideTimes == {CancelTimeoutNs, CancelTimeoutNs + 1}
DecideValues == {-150, -100, 0, 100, 150}
DecideBBOs ==
    {makeBBO(b, IF b > 0 THEN 5 ELSE 0, a, IF a > 0 THEN 5 ELSE 0) :
        b \in {0, 1000000}, a \in {0, 1000200}}

\* the agent's memory: the Order objects of its active orders
activeOrder(id, shape) ==
    [Order(id, "fast", shape.Side, LimitOrder, 1000000, TargetQty, 0,
           shape.DecisionTime) EXCEPT !.RemainingQty = TargetQty]

DecideInit ==
    /\ pc = "deciding"
    /\ cfg \in [signal : [Value : DecideValues, MidPrice : {0}],
                 bbo : DecideBBOs, currentTime : DecideTimes]
    /\ \E ids \in SUBSET (1..MaxActive) :
           \E shapes \in [ids -> ActiveShapes] :
               runner = [agent |-> [NewAgent("fast", NewModel(0, 0, <<0>>),
                                             MaxActive)
                                      EXCEPT !.ActiveOrders = ids],
                         ord |-> [id \in ids |-> activeOrder(id, shapes[id])]]
    /\ last = [kind |-> "none"]
    /\ loop = Idle /\ hist = Idle /\ gen = <<>>
    /\ book = New /\ nextID = 1

\* one call of Decide, the map iteration taking any order
CallDecide ==
    /\ pc = "deciding"
    /\ \E iter \in IterationOrders(runner.agent.ActiveOrders) :
           LET decided(st) ==
                   /\ last' = [kind |-> "Decide", orders |-> st.orders,
                               before |-> runner.agent]
                   /\ runner' = [runner EXCEPT !.agent = st.agent]
           IN  decided(Decide(runner.agent, runner.ord, cfg.signal, cfg.bbo,
                              cfg.currentTime, iter))
    /\ pc' = "decided"
    /\ UNCHANGED <<cfg, gen, loop, hist, book, nextID>>

DecideNext == CallDecide

SpecDecide == DecideInit /\ [][DecideNext]_vars

\* the active orders whose age exceeds the cancel timeout
Stale ==
    {id \in last.before.ActiveOrders :
        cfg.currentTime - runner.ord[id].DecisionTime > CancelTimeoutNs}

\* the agent has an active order of the side
HasActive(side) ==
    \E id \in last.before.ActiveOrders : runner.ord[id].Side = side

\* C27: Decide emits first one Cancel per active order older than the
\* timeout, in ascending order of the target ids; then, for a signal beyond
\* the cross threshold, one Market order of the target size on the side of
\* the signal's sign and nothing more; otherwise at most one Buy Limit at
\* the best bid, then at most one Sell Limit at the best ask.  Every order
\* is decided at the current time and the ids increase.
C27_DecideOrder ==
    pc = "decided" =>
        LET orders == last.orders
            n      == Cardinality(Stale)
            m      == Len(orders) - n
            strong == cfg.signal.Value > CrossThreshold
                         \/ cfg.signal.Value < -CrossThreshold
        IN  /\ m >= 0
            /\ \A i \in 1..n :
                   /\ orders[i].Type = CancelOrder
                   /\ orders[i].CancelID \in Stale
                   /\ i > 1 => orders[i - 1].CancelID < orders[i].CancelID
            /\ \A i \in (n + 1)..Len(orders) : orders[i].Type # CancelOrder
            /\ strong =>
                   /\ m = 1
                   /\ orders[n + 1].Type = MarketOrder
                   /\ orders[n + 1].Qty = TargetQty
                   /\ orders[n + 1].Side =
                          IF cfg.signal.Value > 0 THEN Buy ELSE Sell
            /\ ~strong =>
                   /\ m <= 2
                   /\ \A i \in (n + 1)..Len(orders) :
                          /\ orders[i].Type = LimitOrder
                          /\ orders[i].Qty = TargetQty
                          /\ orders[i].Side \in {Buy, Sell}
                          /\ orders[i].Price =
                                 IF orders[i].Side = Buy THEN cfg.bbo.BidPrice
                                 ELSE cfg.bbo.AskPrice
                   /\ m = 2 => /\ orders[n + 1].Side = Buy
                               /\ orders[n + 2].Side = Sell
                   /\ (\E i \in (n + 1)..Len(orders) : orders[i].Side = Buy)
                          <=> (~HasActive(Buy) /\ cfg.bbo.BidPrice > 0)
                   /\ (\E i \in (n + 1)..Len(orders) : orders[i].Side = Sell)
                          <=> (~HasActive(Sell) /\ cfg.bbo.AskPrice > 0)
            /\ \A i \in 1..Len(orders) :
                   /\ orders[i].DecisionTime = cfg.currentTime
                   /\ orders[i].ID > last.before.nextID
                   /\ i > 1 => orders[i - 1].ID < orders[i].ID

\* two stale orders are cancelled, a third one is just young enough to
\* stay, and a Market order follows the cancels
C27_Witness ==
    /\ pc = "decided"
    /\ Cardinality(Stale) = 2
    /\ Cardinality(last.before.ActiveOrders) = 3
    /\ Len(last.orders) = 3
    /\ last.orders[3].Type = MarketOrder

-----------------------------------------------------------------------------
(* Collector.midAtTime on its own: any BBO history sorted by timestamp,    *)
(* looked up at any time from before its first snapshot to after its last. *)

MaxHistory == 3       \* snapshots in the history
MaxStamp == 3         \* the snapshots' timestamps are 1..MaxStamp

\* sort.Search(len(c.bboHistory), func(i) { return bboHistory[i].timestamp > t })
\* on the 0-based range [i, j)
RECURSIVE searchHistory(_, _, _, _)
searchHistory(bboHistory, t, i, j) ==
    LET h == (i + j) \div 2
    IN  IF ~(i < j) THEN i
        ELSE IF ~(bboHistory[h + 1].timestamp > t)
        THEN searchHistory(bboHistory, t, h + 1, j)
        ELSE searchHistory(bboHistory, t, i, h)

\* Collector.midAtTime
midAtTime(bboHistory, t) ==
    LET found(idx) ==
            IF idx = 0 THEN bboHistory[1].bbo.MidPrice
            ELSE bboHistory[idx].bbo.MidPrice
    IN  IF Len(bboHistory) = 0 THEN 0
        ELSE found(searchHistory(bboHistory, t, 0, Len(bboHistory)))

\* the mid prices of the snapshots; 0 is the mid of a one-sided book
SnapshotMids == {0, 1000000, 1000050}

\* the histories: up to MaxHistory snapshots in the order of their timestamps
Histories ==
    UNION {{h \in [1..n -> [timestamp : 1..MaxStamp,
                            bbo : [MidPrice : SnapshotMids]]] :
               \A i \in 1..(n - 1) : h[i].timestamp <= h[i + 1].timestamp} :
           n \in 0..MaxHistory}

MidInit ==
    /\ pc = "history"
    /\ cfg \in [bboHistory : Histories]
    /\ last = [kind |-> "none"]
    /\ runner = Idle /\ loop = Idle /\ hist = Idle /\ gen = <<>>
    /\ book = New /\ nextID = 1

\* one call of midAtTime
CallMidAtTime ==
    /\ pc = "history"
    /\ \E t \in 0..(MaxStamp + 1) :
           last' = [kind |-> "midAtTime", t |-> t,
                    mid |-> midAtTime(cfg.bboHistory, t)]
    /\ pc' = "looked"
    /\ UNCHANGED <<cfg, gen, loop, runner, hist, book, nextID>>

MidNext == CallMidAtTime

SpecMid == MidInit /\ [][MidNext]_vars

\* the snapshots of the history that are not later than the time looked up
NotLater ==
    {i \in 1..Len(cfg.bboHistory) : cfg.bboHistory[i].timestamp <= last.t}

\* C35: midAtTime(t) returns the mid of the latest snapshot whose timestamp
\* is at most t, and 0 for an empty history; the value is never taken from
\* a snapshot later than t.
C35_MidAtTime ==
    pc = "looked" =>
        /\ Len(cfg.bboHistory) = 0 => last.mid = 0
        /\ NotLater # {} =>
               last.mid = cfg.bboHistory[CHOOSE i \in NotLater :
                                            \A j \in NotLater : j <= i].bbo.MidPrice
        /\ NotLater = {} =>
               \A i \in 1..Len(cfg.bboHistory) :
                   cfg.bboHistory[i].bbo.MidPrice # 0
                       => last.mid # cfg.bboHistory[i].bbo.MidPrice

-----------------------------------------------------------------------------
(* The scenario generators on their own: the batch each of them returns,   *)
(* for any stream of random draws.  The burst multipliers of the spike     *)
(* scenario are whole numbers, as in DefaultSpike, and rates are in        *)
(* hundredths.                                                             *)

\* ThinGenerator.Generate, the order flow loop: the jitter is a quarter of
\* the interval at most, a market order has twice the size drawn, and its
\* size is drawn before its side
RECURSIVE thinFlowLoop(_, _, _)
thinFlowLoop(g, t, restingIDs) ==
    LET p    == g.cfg.Scenario
        next == t + p.OrderIntervalNs
        canceled(k, idx, eventTime) ==
            thinFlowLoop(emitOrder(nextOrderID(k.g), eventTime,
                                   Order(k.g.nextID + 1, "background", 0,
                                         CancelOrder, 0, 0, restingIDs[idx], 0)),
                         next, RemoveAt(restingIDs, idx))
        cancel(k, eventTime) ==
            canceled(k, Int63n(k.v, Len(restingIDs)) + 1, eventTime)
        market(sd, sweepSize, id, eventTime) ==
            thinFlowLoop(emitOrder(sd.g, eventTime,
                                   Order(id, "background", sd.v, MarketOrder, 0,
                                         sweepSize, 0, 0)),
                         next, restingIDs)
        marketSize(sz, id, eventTime) ==
            market(randSide(sz.g), sz.v * 2, id, eventTime)
        limit(sz, side, price, id, eventTime) ==
            thinFlowLoop(emitOrder(sz.g, eventTime,
                                   Order(id, "background", side, LimitOrder,
                                         price, sz.v, 0, 0)),
                         next, Append(restingIDs, id))
        limitAt(o, side, offset, id, eventTime) ==
            limit(randSize(o.g), side,
                  IF side = Buy
                  THEN p.InitialMidPrice - p.InitialSpread \div 2 - offset
                  ELSE p.InitialMidPrice + p.InitialSpread \div 2 + offset,
                  id, eventTime)
        limitOffset(o, side, id, eventTime) ==
            limitAt(o, side, Int63n(o.v, p.MaxPriceLevels) * p.PriceTickSize,
                    id, eventTime)
        limitSide(sd, id, eventTime) ==
            limitOffset(draw(sd.g), sd.v, id, eventTime)
        rolled(roll, eventTime) ==
            IF roll.v < p.CancelRate /\ Len(restingIDs) > 0
            THEN cancel(draw(roll.g), eventTime)
            ELSE IF roll.v < p.CancelRate + p.MarketOrderRatio
            THEN marketSize(randSize(nextOrderID(roll.g)), roll.g.nextID + 1,
                            eventTime)
            ELSE limitSide(randSide(nextOrderID(roll.g)), roll.g.nextID + 1,
                           eventTime)
        timed(j, eventTime) ==
            IF eventTime >= g.cfg.Duration THEN j.g
            ELSE rolled(draw(j.g), eventTime)
        jittered(j) == timed(j, t + Int63n(j.v, p.OrderIntervalNs \div 4))
    IN  IF ~(t < g.cfg.Duration) THEN g ELSE jittered(draw(g))

\* ThinGenerator.Generate
ThinGenerate(c, stream) ==
    LET made(g) == [events |-> SortStable(g.events), orders |-> g.orders,
                    generated |-> g.events]
    IN  made(thinFlowLoop(generateSignals(generateInitialBook(
                              newBackgroundGen(c, stream))),
                          c.Scenario.OrderIntervalNs, <<>>))

\* SpikeGenerator.Generate: `inBurst`, over the windows that start every
\* BurstIntervalNs before Duration
inBurst(c, t) ==
    /\ c.Scenario.BurstIntervalNs > 0
    /\ c.Scenario.BurstWindowNs > 0
    /\ \E k \in 1..(c.Duration \div c.Scenario.BurstIntervalNs) :
           /\ k * c.Scenario.BurstIntervalNs < c.Duration
           /\ t >= k * c.Scenario.BurstIntervalNs
           /\ t < k * c.Scenario.BurstIntervalNs + c.Scenario.BurstWindowNs

\* SpikeGenerator.Generate: a rate in a burst, multiplied and capped
burstRate(rate, isBurst, mul, cap) ==
    IF ~isBurst THEN rate
    ELSE IF cap > 0 /\ rate * mul > cap THEN cap
    ELSE rate * mul

\* SpikeGenerator.Generate, the order flow loop
RECURSIVE spikeFlowLoop(_, _, _)
spikeFlowLoop(g, t, restingIDs) ==
    LET p        == g.cfg.Scenario
        isBurst  == inBurst(g.cfg, t)
        interval == IF isBurst /\ p.BurstRate > 0
                    THEN (IF p.OrderIntervalNs \div p.BurstRate < 1 THEN 1
                          ELSE p.OrderIntervalNs \div p.BurstRate)
                    ELSE p.OrderIntervalNs
        next     == t + interval
        cancelRate  == burstRate(p.CancelRate, isBurst, p.BurstCancelMul,
                                 p.BurstCancelCap)
        marketRatio == burstRate(p.MarketOrderRatio, isBurst, p.BurstMarketMul,
                                 p.BurstMarketCap)
        canceled(k, idx, eventTime) ==
            spikeFlowLoop(emitOrder(nextOrderID(k.g), eventTime,
                                    Order(k.g.nextID + 1, "background", 0,
                                          CancelOrder, 0, 0, restingIDs[idx], 0)),
                          next, RemoveAt(restingIDs, idx))
        cancel(k, eventTime) ==
            canceled(k, Int63n(k.v, Len(restingIDs)) + 1, eventTime)
        market(sd, size, id, eventTime) ==
            spikeFlowLoop(emitOrder(sd.g, eventTime,
                                    Order(id, "background", sd.v, MarketOrder, 0,
                                          size, 0, 0)),
                          next, restingIDs)
        marketSize(sz, id, eventTime) ==
            market(randSide(sz.g),
                   IF isBurst /\ p.BurstSizeMul > 0 THEN sz.v * p.BurstSizeMul
                   ELSE sz.v,
                   id, eventTime)
        limit(sz, side, price, id, eventTime) ==
            spikeFlowLoop(emitOrder(sz.g, eventTime,
                                    Order(id, "background", side, LimitOrder,
                                          price, sz.v, 0, 0)),
                          next, Append(restingIDs, id))
        limitAt(o, side, offset, id, eventTime) ==
            limit(randSize(o.g), side,
                  IF side = Buy
                  THEN p.InitialMidPrice - p.InitialSpread \div 2 - offset
                  ELSE p.InitialMidPrice + p.InitialSpread \div 2 + offset,
                  id, eventTime)
        limitOffset(o, side, id, eventTime) ==
            limitAt(o, side, Int63n(o.v, p.MaxPriceLevels) * p.PriceTickSize,
                    id, eventTime)
        limitSide(sd, id, eventTime) ==
            limitOffset(draw(sd.g), sd.v, id, eventTime)
        rolled(roll, eventTime) ==
            IF roll.v < cancelRate /\ Len(restingIDs) > 0
            THEN cancel(draw(roll.g), eventTime)
            ELSE IF roll.v < cancelRate + marketRatio
            THEN marketSize(randSize(nextOrderID(roll.g)), roll.g.nextID + 1,
                            eventTime)
            ELSE limitSide(randSide(nextOrderID(roll.g)), roll.g.nextID + 1,
                           eventTime)
        timed(j, eventTime) ==
            IF eventTime >= g.cfg.Duration THEN j.g
            ELSE rolled(draw(j.g), eventTime)
        jittered(j) == timed(j, t + Int63n(j.v, interval \div 2 + 1))
    IN  IF ~(t < g.cfg.Duration) THEN g ELSE jittered(draw(g))

\* SpikeGenerator.Generate
SpikeGenerate(c, stream) ==
    LET made(g) == [events |-> SortStable(g.events), orders |-> g.orders,
                    generated |-> g.events]
    IN  made(spikeFlowLoop(generateSignals(generateInitialBook(
                               newBackgroundGen(c, stream))),
                           c.Scenario.OrderIntervalNs, <<>>))

\* Generator.Generate of the generator NewGenerator gives the configuration
GenerateBy(c, stream) ==
    CASE NewGenerator(c) = "ThinGenerator" -> ThinGenerate(c, stream)
      [] NewGenerator(c) = "SpikeGenerator" -> SpikeGenerate(c, stream)
      [] OTHER -> Generate(c, stream)

FlowDurationMs == 800      \* cfg.Duration
FlowIntervalMs == 100      \* Scenario.OrderIntervalNs
FlowPeriod == 6            \* period of the draw stream

\* DefaultThin and DefaultSpike, scaled down as Calm is
Thin(profile) ==
    [Calm(profile) EXCEPT !.Name = "thin",
                          !.Scenario.InitialSpread = 500,
                          !.Scenario.MarketOrderRatio = 25,
                          !.Scenario.CancelRate = 15]
Spike(profile) ==
    [Name |-> "spike", Duration |-> MsToNs(DurationMs),
     FastTrader |-> profile.fast, SlowTrader |-> profile.slow,
     Scenario |-> [InitialMidPrice |-> 1000000, InitialSpread |-> 300,
                   OrderIntervalNs |-> MsToNs(OrderIntervalMs),
                   MarketOrderRatio |-> 20, CancelRate |-> 25,
                   MinOrderSize |-> 3, MaxOrderSize |-> 4,
                   PriceTickSize |-> 100, MaxPriceLevels |-> Levels,
                   SignalIntervalNs |-> MsToNs(SignalIntervalMs),
                   DepthPerLevel |-> Depth,
                   BurstWindowNs |-> MsToNs(FlowIntervalMs) * 2,
                   BurstIntervalNs |-> MsToNs(FlowIntervalMs) * 4,
                   BurstRate |-> 4, BurstCancelMul |-> 2, BurstMarketMul |-> 2,
                   BurstSizeMul |-> 2, BurstCancelCap |-> 50,
                   BurstMarketCap |-> 60]]

\* the three scenarios with the flow's duration and interval
FlowConfigs ==
    {[c EXCEPT !.Duration = MsToNs(FlowDurationMs),
               !.Scenario.OrderIntervalNs = MsToNs(FlowIntervalMs)] :
        c \in {Calm(p) : p \in Profiles} \cup {Thin(p) : p \in Profiles}
              \cup {Spike(p) : p \in Profiles}}

GenInit ==
    /\ pc = "generator"
    /\ cfg \in {c \in FlowConfigs : c.FastTrader.BaseLatencyMs = 1}
    /\ gen \in [1..FlowPeriod -> Draws]
    /\ last = [kind |-> "none"]
    /\ runner = Idle /\ loop = Idle /\ hist = Idle
    /\ book = New /\ nextID = 1

\* one call of Generate
CallGenerate ==
    /\ pc = "generator"
    /\ LET returned(batch) ==
               last' = [kind |-> "Generate", events |-> batch.events,
                        orders |-> batch.orders,
                        generated |-> batch.generated]
       IN  returned(GenerateBy(cfg, gen))
    /\ pc' = "generated"
    /\ UNCHANGED <<cfg, gen, loop, runner, hist, book, nextID>>

GenNext == CallGenerate

SpecGen == GenInit /\ [][GenNext]_vars

\* the position in the batch of the event that carries the order
BatchIndex(id) ==
    CHOOSE i \in 1..Len(last.events) :
        last.events[i].Type = EventOrderAccepted /\ last.events[i].Order = id

\* the positions, in generation order, of the Cancel orders of the batch
Cancels == {k \in 1..Len(last.orders) : last.orders[k].Type = CancelOrder}

\* the orders of the initial book are the first ones generated
InitialOrders == 2 * cfg.Scenario.MaxPriceLevels * cfg.Scenario.DepthPerLevel

\* C36: every background Cancel targets a flow Limit order generated before
\* it, never an order of the initial book or an unknown id; no id is the
\* target of two Cancels; the Cancel's timestamp is greater than its
\* target's, so the Cancel comes after its target in the batch.
C36_BackgroundCancels ==
    pc = "generated" =>
        /\ \A k \in Cancels :
               \E j \in (InitialOrders + 1)..(k - 1) :
                   /\ last.orders[j].ID = last.orders[k].CancelID
                   /\ last.orders[j].Type = LimitOrder
                   /\ last.orders[j].TraderID = "background"
                   /\ last.events[BatchIndex(last.orders[j].ID)].Timestamp
                          < last.events[BatchIndex(last.orders[k].ID)].Timestamp
                   /\ BatchIndex(last.orders[j].ID)
                          < BatchIndex(last.orders[k].ID)
        /\ \A k, m \in Cancels :
               k # m => last.orders[k].CancelID # last.orders[m].CancelID

\* a batch with two Cancels, one of them for an order that is not the last
\* Limit order generated before it
C36_Witness ==
    /\ pc = "generated"
    /\ Cardinality(Cancels) >= 2
    /\ \E k \in Cancels :
           \E j \in 1..(k - 1) :
               /\ last.orders[j].Type = LimitOrder
               /\ last.orders[j].ID > last.orders[k].CancelID
               /\ j > InitialOrders


\* the place of a batch event among the events as they were generated
GenerationIndex(i) ==
    CHOOSE k \in 1..Len(last.generated) : last.generated[k] = last.events[i]

\* C37: the batch a generator returns holds the generated events sorted by
\* non-decreasing timestamp, events of one timestamp in generation order
\* with the initial book first; every timestamp lies in [0, duration);
\* every order has trader id "background"; the order ids are 100001,
\* 100002, ... in generation order, so no two orders share an id.
C37_BatchSorted ==
    pc = "generated" =>
        /\ Len(last.events) = Len(last.generated)
        /\ \A k \in 1..Len(last.generated) :
               \E i \in 1..Len(last.events) : last.events[i] = last.generated[k]
        /\ \A i, j \in 1..Len(last.events) :
               i < j =>
                   /\ last.events[i].Timestamp <= last.events[j].Timestamp
                   /\ last.events[i].Timestamp = last.events[j].Timestamp
                          => GenerationIndex(i) < GenerationIndex(j)
        /\ \A i \in 1..InitialOrders :
               /\ last.events[i].Type = EventOrderAccepted
               /\ last.events[i].Order = last.orders[i].ID
        /\ \A i \in 1..Len(last.events) :
               /\ last.events[i].Timestamp >= 0
               /\ last.events[i].Timestamp < cfg.Duration
        /\ \A k \in 1..Len(last.orders) :
               /\ last.orders[k].TraderID = "background"
               /\ last.orders[k].ID = 100000 + k
        /\ \A k, m \in 1..Len(last.orders) :
               k < m => last.orders[k].ID < last.orders[m].ID

\* a batch the sort has reordered: a flow order stands before a signal that
\* was generated before it, behind the orders of the initial book, which
\* all have timestamp 0
C37_Witness ==
    /\ pc = "generated"
    /\ InitialOrders >= 2
    /\ last.events[1].Timestamp = 0 /\ last.events[2].Timestamp = 0
    /\ \E i, j \in 1..Len(last.events) :
           /\ i < j
           /\ last.events[i].Type = EventOrderAccepted
           /\ last.events[j].Type = EventSignal
           /\ GenerationIndex(i) > GenerationIndex(j)

=============================================================================
